---- MODULE Spec2Model ----
(***************************************************************************)
(* Model of the scraping orchestration framework and of the cross-source   *)
(* identity resolution engine of the wholesale price scraper.              *)
(*                                                                         *)
(*  - SpecJobs   : ScrapeJob control surface (trigger / cancel / progress) *)
(*                 next to the scheduled job.                              *)
(*  - SpecScrape : consecutive orchestrator runs (run_full_scrape), each   *)
(*                 in its own database transaction (get_async_session).   *)
(*  - SpecOverlap: two orchestrator runs overlapping in time.              *)
(*  - SpecLink   : LinkingService (manual, unit and barcode links).        *)
(*  - SpecRate   : RateLimiter token bucket against a discrete clock.      *)
(*  - SpecRateLive: the same limiter under a fair event loop and clock.    *)
(*  - SpecLinkRace: two database sessions inside create_manual_link.       *)
(*  - SpecHttp   : AsyncAPIClient.request under its retry policy.           *)
(*  - SpecMatch  : the heuristic scores of product pairs.                   *)
(*  - SpecSuggest: get_link_suggestions over small product tables.          *)
(*  - SpecUnit   : get_unit_link_suggestions for pairs of units.            *)
(*  - SpecToken  : TokenManager reads of a credential row as time passes.   *)
(*  - SpecCategory: one run_full_scrape, categories before products.       *)
(*  - SpecUnitPrice: price records of one product and of its units.        *)
(*  - SpecMatrix : GET /comparison/matrix over small product tables.       *)
(*  - SpecAuth   : two callers of ensure_authenticated on one adapter.     *)
(*  - SpecRelink : LinkingService over rows that can be inactive.          *)
(*  - SpecJobsLive: SpecJobs with a fair scheduled job.                    *)
(*                                                                         *)
(* Database semantics are those of PostgreSQL at READ COMMITTED: rows      *)
(* written by a session are invisible to the other sessions until that     *)
(* session commits, and vanish when it rolls back.                         *)
(***************************************************************************)
EXTENDS Integers, Sequences, FiniteSets, TLC

(***************************************************************************)
(* Bounds                                                                  *)
(***************************************************************************)
MaxJobs == 3        \* ScrapeJob ids handed out by the serial sequence
MaxRunStarts == 2   \* orchestrator runs started in one behaviour
MaxBatch == 2       \* product payloads fetched by one run
MaxLinks == 2       \* ProductLink ids handed out by the serial sequence
MaxAcquires == 10   \* calls of RateLimiter.acquire in one behaviour
MaxTime == 8        \* ticks of the monotonic clock in one behaviour
MaxRequests == 2    \* calls of AsyncAPIClient.request in one behaviour
MaxLiveAcquires == 4 \* calls of acquire in one behaviour of the fair limiter
MaxLimit == 2       \* largest limit passed to get_link_suggestions
MaxClock == 16      \* minutes of wall clock in one behaviour
MaxPriceCalls == 3  \* price ingestion calls for one product in one behaviour
MaxLogins == 3      \* logins and registrations of one source in one behaviour

(***************************************************************************)
(* Input domains                                                           *)
(***************************************************************************)
SourceApps == {"ben_soliman", "tager_elsaada"}
Runs == {"scheduled", "manual"}
ExternalIds == {"e1", "e2"}
\* prices in thousandths of a pound: 10.000 and 10.005
Prices == {10000, 10005}
Statuses == {"pending", "running", "completed", "failed", "cancelled"}
Terminal == {"completed", "failed", "cancelled"}
NoStatus == "none"

VARIABLES
    jobs,          \* committed scrape_jobs rows, id -> row
    nextJobId,     \* serial sequence of scrape_jobs.id
    products,      \* committed products rows
    nextProductId, \* serial sequence of products.id
    prices,        \* committed price_records rows
    nextPriceId,   \* serial sequence of price_records.id
    runStarts,     \* number of runs started so far; the logical wall clock
    pc,            \* position of each orchestrator run
    sess,          \* the AsyncSession (open transaction) of each run
    stats,         \* BaseScraper._stats of each run
    fed,           \* history: payloads handed to each run, by kind
    pendingItem,   \* the statement a run is blocked on
    lastUpsert,    \* history: outcome of the run's last ProductRepository.upsert
    feed,          \* history: payloads processed per product key
    clean,         \* history: only sequential, committed, duplicate-free cycles so far
    catalog,       \* products rows as the linking service reads them, id -> row
    links,         \* product_links rows
    nextLinkId,    \* serial sequence of product_links.id
    linkRes,       \* history: the last LinkingService call and its outcome
    requests_per_second, \* RateLimiter.requests_per_second, in half tokens per tick
    burst_size,    \* RateLimiter.burst_size, in half tokens
    tokens,        \* RateLimiter.tokens, in half tokens
    last_update,   \* RateLimiter.last_update, in ticks
    lock,          \* RateLimiter._lock: holder first, then the waiters in order
    cpc,           \* position of each caller of acquire
    wakeAt,        \* tick at which a caller's asyncio.sleep is due
    now,           \* time.monotonic(), in ticks since construction
    acquired,      \* history: acquire calls that have returned
    idled,         \* history: ticks that passed while no caller was inside acquire
    linkTx,        \* position of each session inside create_manual_link
    http,          \* the AsyncAPIClient.request call in progress, with its history
    token,         \* the credential row, the wall clock and the last TokenManager call
    match,         \* the scoring call in progress: its pair and its score
    suggest,       \* the get_link_suggestions call in progress and its result
    unitMatch,     \* the get_unit_link_suggestions call in progress and its result
    catRun,        \* a run_full_scrape seen through the categories it touches
    unitPrices,    \* price_records of one product, with the last ingestion call
    matrix,        \* the comparison matrix request in progress and its row
    auth           \* the ensure_authenticated calls of two runs of one source

scrapeVars == <<jobs, nextJobId, products, nextProductId, prices, nextPriceId,
                runStarts, pc, sess, stats, fed, pendingItem, lastUpsert,
                feed, clean>>

linkVars == <<catalog, links, nextLinkId, linkRes>>

rateVars == <<requests_per_second, burst_size, tokens, last_update, lock, cpc,
              wakeAt, now, acquired, idled>>

raceVars == <<linkTx>>

httpVars == <<http>>

tokenVars == <<token>>

matchVars == <<match, suggest>>

unitVars == <<unitMatch>>

moreVars == <<catRun, unitPrices, matrix, auth>>

auxVars == <<httpVars, tokenVars, matchVars, unitVars, moreVars>>

vars == <<scrapeVars, linkVars, rateVars, raceVars, auxVars>>

(***************************************************************************)
(* Rows                                                                    *)
(***************************************************************************)
NoError == [type |-> "none", error |-> "none"]

JobRow(id, source, status) ==
    [id |-> id, source_app |-> source, status |-> status,
     completed_at |-> FALSE,
     products_scraped |-> 0, products_new |-> 0, products_updated |-> 0,
     errors_count |-> 0, error_details |-> NoError]

NoJob == JobRow(0, "none", NoStatus)

NoItem == [ext |-> "none", price |-> 0, avail |-> FALSE, kind |-> "none"]

OkItems == [ext : ExternalIds, price : Prices, avail : BOOLEAN, kind : {"ok"}]
\* a payload whose price field is not a number, and one parse_product rejects
BadItems == {[ext |-> "e1", price |-> 0, avail |-> TRUE, kind |-> k] :
                k \in {"bad_price", "bad_parse"}}
Items == OkItems \cup BadItems

ZeroStats == [products_scraped |-> 0, products_new |-> 0,
              products_updated |-> 0, errors |-> 0]

NoSession == [source_app |-> "none", start |-> 0, job |-> NoJob,
              products |-> {}, prices |-> {}, locked |-> {}, failed |-> FALSE]

ProductKeys == SourceApps \X ExternalIds

NoFeed == [n |-> 0, changes |-> 0, price |-> 0, avail |-> FALSE]

(***************************************************************************)
(* Column types                                                            *)
(***************************************************************************)
\* price = Column(Numeric(12, 2)): the stored value is rounded to two
\* decimals (half away from zero); prices are thousandths here
StorePrice(p) == ((p + 5) \div 10) * 10


dbVars == <<jobs, nextJobId, products, nextProductId, prices, nextPriceId>>
runVars == <<runStarts, pc, sess, stats, fed, pendingItem, lastUpsert>>
cycleVars == <<feed, clean>>

(***************************************************************************)
(* Control surface: ScraperService and the /scraper routes.  Each call     *)
(* runs in its own synchronous Session and commits before returning.       *)
(***************************************************************************)
UnknownApp == "unknown_app"

\* ScraperService.AVAILABLE_APPS (restricted to the modelled sources)
AVAILABLE_APPS == SourceApps

\* the query of trigger_scrape: a job of the source that is pending or running
HasActiveJob(J, source) ==
    \E id \in DOMAIN J :
        /\ J[id].source_app = source
        /\ J[id].status \in {"pending", "running"}

InsertJob(J, row) ==
    [i \in DOMAIN J \cup {row.id} |-> IF i = row.id THEN row ELSE J[i]]

\* ScraperService.trigger_scrape
TriggerScrapeService(source) ==
    /\ nextJobId <= MaxJobs
    /\ IF source \notin AVAILABLE_APPS \/ HasActiveJob(jobs, source)
       THEN UNCHANGED <<jobs, nextJobId>>
       ELSE /\ jobs' = InsertJob(jobs, JobRow(nextJobId, source, "pending"))
            /\ nextJobId' = nextJobId + 1
    /\ UNCHANGED <<products, nextProductId, prices, nextPriceId>>
    /\ UNCHANGED <<runVars, cycleVars>>

\* POST /scraper/trigger
TriggerScrapeRoute(source) ==
    /\ nextJobId <= MaxJobs
    /\ jobs' = InsertJob(jobs, JobRow(nextJobId, source, "pending"))
    /\ nextJobId' = nextJobId + 1
    /\ UNCHANGED <<products, nextProductId, prices, nextPriceId>>
    /\ UNCHANGED <<runVars, cycleVars>>

\* ScraperService.cancel_job
CancelJob(job_id) ==
    /\ IF job_id \in DOMAIN jobs /\ jobs[job_id].status \in {"pending", "running"}
       THEN jobs' = [jobs EXCEPT ![job_id].status = "cancelled",
                                 ![job_id].completed_at = TRUE]
       ELSE UNCHANGED jobs
    /\ UNCHANGED <<nextJobId, products, nextProductId, prices, nextPriceId>>
    /\ UNCHANGED <<runVars, cycleVars>>

\* POST /scraper/jobs/{job_id}/cancel
CancelScrapeJobRoute(job_id) ==
    /\ IF job_id \in DOMAIN jobs /\ jobs[job_id].status = "running"
       THEN jobs' = [jobs EXCEPT ![job_id].status = "cancelled",
                                 ![job_id].completed_at = TRUE]
       ELSE UNCHANGED jobs
    /\ UNCHANGED <<nextJobId, products, nextProductId, prices, nextPriceId>>
    /\ UNCHANGED <<runVars, cycleVars>>

\* ScraperService.update_job_progress; status = NoStatus is status=None
UpdateJobProgress(job_id, products_scraped, status) ==
    /\ IF job_id \in DOMAIN jobs
       THEN jobs' = [jobs EXCEPT
                  ![job_id].products_scraped = products_scraped,
                  ![job_id].products_updated = 0,
                  ![job_id].products_new = 0,
                  ![job_id].errors_count = 0,
                  ![job_id].status = IF status # NoStatus THEN status ELSE @,
                  ![job_id].completed_at =
                        IF status \in Terminal THEN TRUE ELSE @]
       ELSE UNCHANGED jobs
    /\ UNCHANGED <<nextJobId, products, nextProductId, prices, nextPriceId>>
    /\ UNCHANGED <<runVars, cycleVars>>

(***************************************************************************)
(* Orchestrator: BaseScraper.run_full_scrape inside get_async_session.     *)
(* pc: idle -> start -> authed -> cats -> items (-> blocked) ->            *)
(*     finished | raised -> idle                                           *)
(***************************************************************************)
NoPending == [item |-> NoItem, stmt |-> "none"]

\* lost: the fetch ("categories", "products") whose error the adapter
\* swallowed, the later one if both
NoFed == [ok |-> 0, bad |-> 0, systemic |-> FALSE, lost |-> "none"]

\* how a fetch_categories or fetch_products request of the adapter ends:
\* with a response, with a 401/403, or with a transport error after the
\* last retry
FetchResults == {"ok", "AuthenticationError", "NetworkError"}

\* existed: the key's row was committed when the call ended
NoUpsert == [key |-> <<"none", "none">>, result |-> "none", existed |-> FALSE]

ErrorDetails(type) == [type |-> type, error |-> "message"]

\* scheduler/jobs.py: the scheduled job (max_instances = 1) scrapes one
\* source, run_single_scrape any of them
RunSources(r) ==
    IF r = "scheduled" THEN {"tager_elsaada"} ELSE SourceApps

\* the assignments of BaseScraper._finish_job to the session's job row
FinishJob(job, status, st, error_details) ==
    [job EXCEPT !.status = status,
                !.completed_at = TRUE,
                !.products_scraped = st.products_scraped,
                !.products_new = st.products_new,
                !.products_updated = st.products_updated,
                !.errors_count = st.errors,
                !.error_details = error_details]

Key(r, item) == <<sess[r].source_app, item.ext>>

KeyOf(row) == <<row.source_app, row.external_id>>

\* rows a session sees: committed ones and its own writes
VisibleProducts(r) == products \cup sess[r].products

VisiblePrices(r, product_id) ==
    {p \in prices \cup sess[r].prices : p.product_id = product_id}

\* ORDER BY recorded_at DESC LIMIT 1: any row with the greatest timestamp
LatestSet(S) == {p \in S : \A q \in S : q.recorded_at <= p.recorded_at}

\* PriceRepository.should_record_price, given get_latest_for_product's result
ShouldRecordPrice(hasLatest, latest, new_price, is_available) ==
    IF ~hasLatest THEN TRUE
    ELSE IF latest.price # new_price THEN TRUE
    ELSE IF latest.is_available # is_available THEN TRUE
    ELSE FALSE

NoPrice == [id |-> 0, product_id |-> 0, price |-> 0, is_available |-> FALSE,
            recorded_at |-> 0, scrape_job_id |-> 0]

\* another open transaction has written the row (or index entry) of key
Held(r, key) ==
    \E q \in Runs \ {r} : pc[q] # "idle" /\ key \in sess[q].locked

MarkDirty ==
    /\ clean' = FALSE
    /\ feed' = [k \in ProductKeys |-> NoFeed]

\* BaseScraper._start_job; the INSERT opens the run's transaction
StartJob(r, source) ==
    /\ pc[r] = "idle"
    /\ runStarts < MaxRunStarts
    /\ nextJobId <= MaxJobs
    /\ runStarts' = runStarts + 1
    /\ nextJobId' = nextJobId + 1
    /\ sess' = [sess EXCEPT ![r] =
                  [NoSession EXCEPT !.source_app = source,
                                    !.start = runStarts + 1,
                                    !.job = JobRow(nextJobId, source, "running")]]
    /\ stats' = [stats EXCEPT ![r] = ZeroStats]
    /\ pc' = [pc EXCEPT ![r] = "start"]
    /\ IF clean /\ \A q \in Runs \ {r} : pc[q] = "idle"
       THEN UNCHANGED cycleVars
       ELSE MarkDirty
    /\ UNCHANGED <<jobs, products, nextProductId, prices, nextPriceId>>
    /\ UNCHANGED <<fed, pendingItem, lastUpsert>>

\* the except branch of run_full_scrape: _finish_job(FAILED, ...) and re-raise
Raise(r, type, systemic) ==
    /\ sess' = [sess EXCEPT ![r].job =
                  FinishJob(@, "failed", stats[r], ErrorDetails(type))]
    /\ pc' = [pc EXCEPT ![r] = "raised"]
    /\ fed' = [fed EXCEPT ![r].systemic = systemic \/ @]

\* BaseScraper.ensure_authenticated
EnsureAuthenticated(r, ok) ==
    /\ pc[r] = "start"
    /\ IF ok
       THEN /\ pc' = [pc EXCEPT ![r] = "authed"]
            /\ UNCHANGED <<sess, fed>>
       ELSE Raise(r, "AuthenticationError", TRUE)
    /\ UNCHANGED <<dbVars, runStarts, stats, pendingItem, lastUpsert,
                   cycleVars>>

\* fetch_categories of the adapter and the category loop of
\* run_full_scrape: the adapter catches every exception of the request, logs
\* it and returns the empty list
FetchCategories(r, result) ==
    /\ pc[r] = "authed"
    /\ pc' = [pc EXCEPT ![r] = "cats"]
    /\ fed' = [fed EXCEPT ![r].lost =
                  IF result = "ok" THEN @ ELSE "categories"]
    /\ UNCHANGED <<dbVars, runStarts, sess, stats, pendingItem, lastUpsert,
                   cycleVars>>

\* fetch_products of the adapter: the same, and the product loop then has
\* nothing to process
FetchProducts(r, result) ==
    /\ pc[r] = "cats"
    /\ pc' = [pc EXCEPT ![r] = "items"]
    /\ fed' = [fed EXCEPT ![r].lost =
                  IF result = "ok" THEN @ ELSE "products"]
    /\ UNCHANGED <<dbVars, runStarts, sess, stats, pendingItem, lastUpsert,
                   cycleVars>>

\* history of the payloads processed for one product key
FeedUpdate(r, key, item) ==
    IF clean /\ key \notin sess[r].locked
    THEN /\ feed' = [feed EXCEPT ![key] =
                [n |-> @.n + 1,
                 changes |-> @.changes +
                     (IF @.n > 0 /\ (@.price # item.price \/ @.avail # item.avail)
                      THEN 1 ELSE 0),
                 price |-> item.price,
                 avail |-> item.avail]]
         /\ UNCHANGED clean
    ELSE MarkDirty

\* a statement of process_product failed inside its try block:
\* the transaction is aborted, the error is counted
ItemError(r, key) ==
    /\ sess' = [sess EXCEPT ![r].failed = TRUE]
    /\ stats' = [stats EXCEPT ![r].errors = @ + 1]
    /\ lastUpsert' = [lastUpsert EXCEPT ![r] =
            [key |-> key, result |-> "error",
             existed |-> \E p \in products : KeyOf(p) = key]]
    /\ MarkDirty
    /\ UNCHANGED <<nextProductId, nextPriceId>>

\* ProductRepository.upsert (its INSERT or UPDATE, once the row is not held by
\* another transaction) and the rest of process_product
Execute(r, item, stmt) ==
    LET key == Key(r, item)
        committed == {p \in products : KeyOf(p) = key}
        visible == {p \in VisibleProducts(r) : KeyOf(p) = key}
        is_new == stmt = "insert"
    IN
    IF is_new /\ committed # {}
    THEN \* unique constraint uq_product_source_external
         ItemError(r, key)
    ELSE
      LET product_id == IF is_new THEN nextProductId
                        ELSE (CHOOSE p \in visible : TRUE).id
          row == [id |-> product_id, source_app |-> key[1],
                  external_id |-> key[2]]
          seen == VisiblePrices(r, product_id)
      IN
      /\ nextProductId' = IF is_new THEN nextProductId + 1 ELSE nextProductId
      /\ lastUpsert' = [lastUpsert EXCEPT ![r] =
              [key |-> key,
               result |-> IF is_new THEN "created" ELSE "updated",
               existed |-> committed # {}]]
      /\ \E latest \in (IF seen = {} THEN {NoPrice} ELSE LatestSet(seen)) :
            LET should_record ==
                    ShouldRecordPrice(seen # {}, latest, item.price, item.avail)
                price_record ==
                    [id |-> nextPriceId, product_id |-> product_id,
                     price |-> item.price, is_available |-> item.avail,
                     recorded_at |-> sess[r].start,
                     scrape_job_id |-> sess[r].job.id]
            IN
            /\ sess' = [sess EXCEPT
                  ![r].products = IF is_new THEN @ \cup {row} ELSE @,
                  ![r].locked = @ \cup {key},
                  ![r].prices = IF should_record THEN @ \cup {price_record}
                                ELSE @]
            /\ nextPriceId' = IF should_record THEN nextPriceId + 1
                              ELSE nextPriceId
      /\ stats' = [stats EXCEPT
              ![r].products_scraped = @ + 1,
              ![r].products_new = IF is_new THEN @ + 1 ELSE @,
              ![r].products_updated = IF is_new THEN @ ELSE @ + 1]
      /\ FeedUpdate(r, key, item)

\* BaseScraper.process_product for a payload whose price field was readable
ProcessProduct(r, item) ==
    IF item.kind = "bad_parse"
    THEN \* parse_product raises inside the try block
         /\ stats' = [stats EXCEPT ![r].errors = @ + 1]
         /\ UNCHANGED <<sess, nextProductId, nextPriceId, pc, pendingItem,
                        lastUpsert, cycleVars>>
    ELSE IF sess[r].failed
    THEN \* every statement of an aborted transaction raises
         /\ stats' = [stats EXCEPT ![r].errors = @ + 1]
         /\ lastUpsert' = [lastUpsert EXCEPT ![r] =
                 [key |-> Key(r, item), result |-> "error",
                  existed |-> \E p \in products : KeyOf(p) = Key(r, item)]]
         /\ UNCHANGED <<sess, nextProductId, nextPriceId, pc, pendingItem,
                        cycleVars>>
    ELSE LET key == Key(r, item)
             existing == {p \in VisibleProducts(r) : KeyOf(p) = key}
             stmt == IF existing # {} THEN "update" ELSE "insert"
         IN IF Held(r, key)
            THEN /\ pc' = [pc EXCEPT ![r] = "blocked"]
                 /\ pendingItem' = [pendingItem EXCEPT ![r] =
                                        [item |-> item, stmt |-> stmt]]
                 /\ UNCHANGED <<sess, stats, nextProductId, nextPriceId,
                                lastUpsert, cycleVars>>
            ELSE /\ Execute(r, item, stmt)
                 /\ UNCHANGED <<pc, pendingItem>>

\* one iteration of the product loop of run_full_scrape
ProcessItem(r, item) ==
    /\ pc[r] = "items"
    /\ fed[r].ok + fed[r].bad < MaxBatch
    /\ fed[r].lost # "products"
    /\ IF item.kind = "bad_price"
       THEN \* Decimal(str(...)) raises before process_product is entered
            /\ sess' = [sess EXCEPT ![r].job =
                  FinishJob(@, "failed", stats[r], ErrorDetails("InvalidOperation"))]
            /\ pc' = [pc EXCEPT ![r] = "raised"]
            /\ fed' = [fed EXCEPT ![r].bad = @ + 1]
            /\ UNCHANGED <<stats, nextProductId, nextPriceId, pendingItem,
                           lastUpsert, cycleVars>>
       ELSE /\ fed' = [fed EXCEPT
                  ![r].ok = IF item.kind = "ok" THEN @ + 1 ELSE @,
                  ![r].bad = IF item.kind = "ok" THEN @ ELSE @ + 1]
            /\ ProcessProduct(r, item)
    /\ UNCHANGED <<jobs, nextJobId, products, prices, runStarts>>

\* the row lock or unique-index wait of a blocked statement ends
Resume(r) ==
    /\ pc[r] = "blocked"
    /\ ~Held(r, Key(r, pendingItem[r].item))
    /\ Execute(r, pendingItem[r].item, pendingItem[r].stmt)
    /\ pc' = [pc EXCEPT ![r] = "items"]
    /\ pendingItem' = [pendingItem EXCEPT ![r] = NoPending]
    /\ UNCHANGED <<jobs, nextJobId, products, prices, runStarts, fed>>

\* two blocked transactions wait for each other: the database aborts one
DeadlockDetected(r) ==
    /\ pc[r] = "blocked"
    /\ \E q \in Runs \ {r} :
          /\ pc[q] = "blocked"
          /\ Key(r, pendingItem[r].item) \in sess[q].locked
          /\ Key(q, pendingItem[q].item) \in sess[r].locked
    /\ ItemError(r, Key(r, pendingItem[r].item))
    /\ pc' = [pc EXCEPT ![r] = "items"]
    /\ pendingItem' = [pendingItem EXCEPT ![r] = NoPending]
    /\ UNCHANGED <<jobs, nextJobId, products, prices, runStarts, fed>>

\* the product loop ends: _finish_job(COMPLETED); its flush raises in an
\* aborted transaction, which the except branch turns into a failed run
FinishBatch(r) ==
    /\ pc[r] = "items"
    /\ IF sess[r].failed
       THEN /\ sess' = [sess EXCEPT ![r].job =
                  FinishJob(@, "failed", stats[r],
                            ErrorDetails("PendingRollbackError"))]
            /\ pc' = [pc EXCEPT ![r] = "raised"]
       ELSE /\ sess' = [sess EXCEPT ![r].job =
                  FinishJob(@, "completed", stats[r], NoError)]
            /\ pc' = [pc EXCEPT ![r] = "finished"]
    /\ UNCHANGED <<dbVars, runStarts, stats, fed, pendingItem, lastUpsert,
                   cycleVars>>

\* get_async_session leaves its with block: commit, or rollback on exception
SessionExit(r) ==
    /\ pc[r] \in {"finished", "raised"}
    /\ IF pc[r] = "finished"
       THEN /\ jobs' = InsertJob(jobs, sess[r].job)
            /\ products' = products \cup sess[r].products
            /\ prices' = prices \cup
                  {[p EXCEPT !.price = StorePrice(p.price)] : p \in sess[r].prices}
            /\ UNCHANGED cycleVars
       ELSE /\ UNCHANGED <<jobs, products, prices>>
            /\ MarkDirty
    /\ pc' = [pc EXCEPT ![r] = "idle"]
    /\ sess' = [sess EXCEPT ![r] = NoSession]
    /\ stats' = [stats EXCEPT ![r] = ZeroStats]
    /\ fed' = [fed EXCEPT ![r] = NoFed]
    /\ lastUpsert' = [lastUpsert EXCEPT ![r] = NoUpsert]
    /\ UNCHANGED <<nextJobId, nextProductId, nextPriceId, runStarts,
                   pendingItem>>

(***************************************************************************)
(* LinkingService: product_links rows between products of two sources      *)
(***************************************************************************)
ProductIds == {1, 2, 3}
MissingProductId == 4
UnitIds == {1, 2, 3}
MissingUnitId == 4
NULL == 0
NoFilter == "none"

\* a barcode column value: NULL, or a string held as its characters
NoBarcode == [isnull |-> TRUE, text |-> <<>>]
Text(t) == [isnull |-> FALSE, text |-> t]
Barcodes == {NoBarcode, Text(<<>>), Text(<<" ">>), Text(<<"a">>),
             Text(<<"a", " ">>), Text(<<"b">>)}

\* product_units rows: unit u is the one unit of product u
ProductUnits == [u \in UnitIds |->
                    [product_id |-> u,
                     factor |-> IF u = 1 THEN 6 ELSE IF u = 2 THEN 24 ELSE 12]]

\* str.strip()
RECURSIVE LStrip(_)
LStrip(s) == IF s # <<>> /\ Head(s) = " " THEN LStrip(Tail(s)) ELSE s

RECURSIVE RStrip(_)
RStrip(s) ==
    IF s # <<>> /\ s[Len(s)] = " " THEN RStrip(SubSeq(s, 1, Len(s) - 1)) ELSE s

Strip(s) == RStrip(LStrip(s))

\* the grouping key of a pass that compares barcodes as stored
RawBarcodeKey(product) == product.barcode.text

\* the key a product is grouped under by the barcode pass
BarcodeKey(product) == Strip(product.barcode.text)

Min(a, b) == IF a < b THEN a ELSE b

Max(a, b) == IF a < b THEN b ELSE a

\* the orientation create_manual_link would store if it did not order
\* the two ids
KeepPair(product_a_id, product_b_id) == <<product_a_id, product_b_id>>

\* the pair as create_manual_link stores and looks it up
OrderPair(product_a_id, product_b_id) ==
    <<Min(product_a_id, product_b_id), Max(product_a_id, product_b_id)>>

LinkRow(id, product_a_id, product_b_id, unit_a_id, unit_b_id, link_type) ==
    [id |-> id, product_a_id |-> product_a_id, product_b_id |-> product_b_id,
     unit_a_id |-> unit_a_id, unit_b_id |-> unit_b_id, link_type |-> link_type,
     confidence_score |-> 10000, is_active |-> TRUE]

\* _get_existing_link: any row of the pair, whatever its units or activity
GetExistingLink(L, product_a_id, product_b_id) ==
    {l \in L : /\ l.product_a_id = Min(product_a_id, product_b_id)
               /\ l.product_b_id = Max(product_a_id, product_b_id)}

\* _get_existing_unit_link: the units follow their products when those swap
GetExistingUnitLink(L, product_a_id, product_b_id, unit_a_id, unit_b_id) ==
    LET ua == IF product_a_id > product_b_id THEN unit_b_id ELSE unit_a_id
        ub == IF product_a_id > product_b_id THEN unit_a_id ELSE unit_b_id
    IN {l \in L : /\ l.product_a_id = Min(product_a_id, product_b_id)
                  /\ l.product_b_id = Max(product_a_id, product_b_id)
                  /\ l.unit_a_id = ua
                  /\ l.unit_b_id = ub}

\* a unit lookup that does not ask for the owning product
AnyUnit(unit_id, product_id) == unit_id \in DOMAIN ProductUnits

\* the unit row create_unit_link finds for a unit id and its stated product
OwnedUnit(unit_id, product_id) ==
    /\ unit_id \in DOMAIN ProductUnits
    /\ ProductUnits[unit_id].product_id = product_id

\* uq_product_unit_link; rows with NULL units never collide
UniqueViolation(L, row) ==
    /\ row.unit_a_id # NULL
    /\ row.unit_b_id # NULL
    /\ \E l \in L : /\ l.product_a_id = row.product_a_id
                    /\ l.product_b_id = row.product_b_id
                    /\ l.unit_a_id = row.unit_a_id
                    /\ l.unit_b_id = row.unit_b_id

\* history of a call: what the request was (swapped: the larger product id
\* came first; invalid: it names a missing product, two products of one
\* source, a unit of another product, or a pair that is linked already;
\* repeat: the pair, or unit pair, is linked already) and how it ended
NoLinkRes == [op |-> "none", outcome |-> "none", swapped |-> FALSE,
              invalid |-> FALSE, repeat |-> FALSE, created |-> 0,
              skipped |-> 0]

Request(swapped, invalid, repeat) ==
    [NoLinkRes EXCEPT !.swapped = swapped, !.invalid = invalid,
                      !.repeat = repeat]

CallRes(req, op, outcome) == [req EXCEPT !.op = op, !.outcome = outcome]

\* the call raises before db.add: nothing is written
RejectLink(req, op, outcome) ==
    /\ linkRes' = CallRes(req, op, outcome)
    /\ UNCHANGED <<catalog, links, nextLinkId>>

\* db.add, db.commit
CommitLink(req, op, row) ==
    /\ nextLinkId <= MaxLinks
    /\ IF UniqueViolation(links, row)
       THEN /\ linkRes' = CallRes(req, op, "IntegrityError")
            /\ UNCHANGED links
       ELSE /\ links' = links \cup {row}
            /\ linkRes' = [CallRes(req, op, "ok") EXCEPT !.created = 1]
    /\ nextLinkId' = nextLinkId + 1
    /\ UNCHANGED catalog

\* the rows that join two products, in either order
PairLinks(L, a, b) ==
    {l \in L : {l.product_a_id, l.product_b_id} = {a, b}}

\* the rows that join unit ua of product a with unit ub of product b
UnitPairLinks(L, a, b, ua, ub) ==
    {l \in L : \/ /\ l.product_a_id = a /\ l.unit_a_id = ua
                   /\ l.product_b_id = b /\ l.unit_b_id = ub
                \/ /\ l.product_a_id = b /\ l.unit_a_id = ub
                   /\ l.product_b_id = a /\ l.unit_b_id = ua}

ManualRequest(a, b) ==
    Request(a > b,
            \/ a \notin DOMAIN catalog
            \/ b \notin DOMAIN catalog
            \/ catalog[a].source_app = catalog[b].source_app
            \/ PairLinks(links, a, b) # {},
            PairLinks(links, a, b) # {})

UnitRequest(a, b, ua, ub) ==
    Request(a > b,
            \/ a \notin DOMAIN catalog
            \/ b \notin DOMAIN catalog
            \/ catalog[a].source_app = catalog[b].source_app
            \/ ua \notin DOMAIN ProductUnits
            \/ ub \notin DOMAIN ProductUnits
            \/ ProductUnits[ua].product_id # a
            \/ ProductUnits[ub].product_id # b
            \/ UnitPairLinks(links, a, b, ua, ub) # {},
            UnitPairLinks(links, a, b, ua, ub) # {})

CreateManualLink(product_a_id, product_b_id) ==
    LET pair == OrderPair(product_a_id, product_b_id)
        min_id == pair[1]
        max_id == pair[2]
        req == ManualRequest(product_a_id, product_b_id)
    IN /\ UNCHANGED <<scrapeVars, rateVars, raceVars, auxVars>>
       /\ IF min_id \notin DOMAIN catalog \/ max_id \notin DOMAIN catalog
          THEN RejectLink(req, "manual", "not_found")
          ELSE IF catalog[min_id].source_app = catalog[max_id].source_app
          THEN RejectLink(req, "manual", "same_app")
          ELSE IF GetExistingLink(links, min_id, max_id) # {}
          THEN RejectLink(req, "manual", "exists")
          ELSE CommitLink(req, "manual",
                          LinkRow(nextLinkId, min_id, max_id, NULL, NULL,
                                  "manual"))

\* "manual_warning" when the smaller factor is under half the larger one
UnitLinkType(unit_a_id, unit_b_id) ==
    LET fa == ProductUnits[unit_a_id].factor
        fb == ProductUnits[unit_b_id].factor
    IN IF fa # 0 /\ fb # 0 /\ 2 * Min(fa, fb) < Max(fa, fb)
       THEN "manual_warning"
       ELSE "manual"

CreateUnitLink(product_a_id, product_b_id, unit_a_id, unit_b_id) ==
    LET swapped == product_a_id > product_b_id
        row == IF swapped
               THEN LinkRow(nextLinkId, product_b_id, product_a_id,
                            unit_b_id, unit_a_id,
                            UnitLinkType(unit_a_id, unit_b_id))
               ELSE LinkRow(nextLinkId, product_a_id, product_b_id,
                            unit_a_id, unit_b_id,
                            UnitLinkType(unit_a_id, unit_b_id))
        req == UnitRequest(product_a_id, product_b_id, unit_a_id, unit_b_id)
    IN /\ UNCHANGED <<scrapeVars, rateVars, raceVars, auxVars>>
       /\ IF product_a_id \notin DOMAIN catalog
             \/ product_b_id \notin DOMAIN catalog
          THEN RejectLink(req, "unit", "not_found")
          ELSE IF catalog[product_a_id].source_app
                    = catalog[product_b_id].source_app
          THEN RejectLink(req, "unit", "same_app")
          ELSE IF ~OwnedUnit(unit_a_id, product_a_id)
                  \/ ~OwnedUnit(unit_b_id, product_b_id)
          THEN RejectLink(req, "unit", "unit_mismatch")
          ELSE IF GetExistingUnitLink(links, product_a_id, product_b_id,
                                      unit_a_id, unit_b_id) # {}
          THEN RejectLink(req, "unit", "exists")
          ELSE CommitLink(req, "unit", row)

\* products the barcode pass groups: barcode neither NULL nor '', of the
\* requested source if one is given, and not blank once stripped
Grouped(source_app) ==
    {p \in DOMAIN catalog :
        /\ ~catalog[p].barcode.isnull
        /\ catalog[p].barcode.text # <<>>
        /\ source_app # NoFilter => catalog[p].source_app = source_app
        /\ BarcodeKey(catalog[p]) # <<>>}

BarcodeGroup(source_app, key) ==
    {p \in Grouped(source_app) : BarcodeKey(catalog[p]) = key}

\* the pairs the pass visits: same group, a group of two sources or more,
\* products of different sources
BarcodePairs(source_app) ==
    {pr \in Grouped(source_app) \X Grouped(source_app) :
        /\ pr[1] < pr[2]
        /\ BarcodeKey(catalog[pr[1]]) = BarcodeKey(catalog[pr[2]])
        /\ Cardinality({catalog[p].source_app :
               p \in BarcodeGroup(source_app, BarcodeKey(catalog[pr[1]]))}) >= 2
        /\ catalog[pr[1]].source_app # catalog[pr[2]].source_app}

\* position of a pair among the pairs the pass links, in product id order
PairRank(S, pr) ==
    Cardinality({q \in S : q[1] < pr[1] \/ (q[1] = pr[1] /\ q[2] < pr[2])})

AutoLinkByBarcode(source_app) ==
    LET visited == BarcodePairs(source_app)
        fresh == {pr \in visited :
                     GetExistingLink(links, pr[1], pr[2]) = {}}
    IN /\ UNCHANGED <<scrapeVars, rateVars, raceVars, auxVars>>
       /\ nextLinkId + Cardinality(fresh) - 1 <= MaxLinks
       /\ links' = links \cup
             {LinkRow(nextLinkId + PairRank(fresh, pr),
                      Min(pr[1], pr[2]), Max(pr[1], pr[2]), NULL, NULL,
                      "barcode") : pr \in fresh}
       /\ nextLinkId' = nextLinkId + Cardinality(fresh)
       /\ linkRes' = [CallRes(NoLinkRes, "auto", "ok")
                         EXCEPT !.created = Cardinality(fresh),
                                !.skipped = Cardinality(visited \ fresh)]
       /\ UNCHANGED catalog

DeleteLink(link_id) ==
    /\ UNCHANGED <<scrapeVars, rateVars, raceVars, auxVars>>
    /\ IF \E l \in links : l.id = link_id
       THEN /\ links' = {l \in links : l.id # link_id}
            /\ linkRes' = CallRes(NoLinkRes, "delete", "ok")
       ELSE /\ linkRes' = CallRes(NoLinkRes, "delete", "not_found")
            /\ UNCHANGED links
    /\ UNCHANGED <<catalog, nextLinkId>>

\* a product_links row taken out of use: is_active is cleared by an UPDATE
\* on the table, no call of the service writes the column after the INSERT
DeactivateLink(link_id) ==
    /\ UNCHANGED <<scrapeVars, rateVars, raceVars, auxVars>>
    /\ \E l \in links : l.id = link_id /\ l.is_active
    /\ links' = {IF l.id = link_id THEN [l EXCEPT !.is_active = FALSE] ELSE l :
                    l \in links}
    /\ linkRes' = NoLinkRes
    /\ UNCHANGED <<catalog, nextLinkId>>

(***************************************************************************)
(* RateLimiter: token bucket read against time.monotonic()                 *)
(*                                                                         *)
(* Time is counted in ticks of two thirds of a second and tokens in        *)
(* halves, so that 1.5 requests per second is two half tokens per tick and *)
(* every quantity of the bucket stays an integer.                          *)
(***************************************************************************)
Callers == {"c1", "c2"}
HalvesPerToken == 2
\* 0.75 and 1.5 requests per second
Rates == {1, 2}
\* bursts of 1, 2 and 3 requests
Bursts == {2, 4, 6}

\* new_tokens = elapsed * requests_per_second
NewTokens(elapsed) == elapsed * requests_per_second

\* a refill that forgets the capacity of the bucket
UncappedTokens(t) == tokens + NewTokens(t - last_update)

\* _add_tokens: the bucket as refilled at time.monotonic() = t
AddTokens(t) == Min(burst_size, tokens + NewTokens(t - last_update))

\* a loop test that is content with any token left
AnyLeft(available, needed) == available > 0

\* the test that ends the wait loop
Enough(available, needed) == available >= needed

\* wait_time = tokens_needed / requests_per_second, in whole ticks
WaitTime(available, needed) ==
    (needed - available + requests_per_second - 1) \div requests_per_second

\* one turn of the loop of _wait_for_tokens by the holder of the lock:
\* refill, then either debit and release the lock or go to sleep
Attempt(c, n) ==
    LET available == AddTokens(now)
        needed == n * HalvesPerToken
    IN /\ last_update' = now
       /\ IF Enough(available, needed)
          THEN /\ tokens' = available - needed
               /\ lock' = Tail(lock)
               /\ cpc' = [cpc EXCEPT ![c] = "idle"]
               /\ acquired' = acquired + 1
               /\ UNCHANGED wakeAt
          ELSE /\ tokens' = available
               /\ cpc' = [cpc EXCEPT ![c] = "sleeping"]
               /\ wakeAt' = [wakeAt EXCEPT
                                ![c] = now + WaitTime(available, needed)]
               /\ UNCHANGED <<lock, acquired>>
       /\ UNCHANGED <<requests_per_second, burst_size, now, idled>>

InFlight == Cardinality({c \in Callers : cpc[c] # "idle"})

\* acquire(1) is called: the caller queues on the lock
Acquire(c) ==
    /\ UNCHANGED <<scrapeVars, linkVars, raceVars, auxVars>>
    /\ cpc[c] = "idle"
    /\ acquired + InFlight < MaxAcquires
    /\ lock' = Append(lock, c)
    /\ cpc' = [cpc EXCEPT ![c] = "locked"]
    /\ UNCHANGED <<requests_per_second, burst_size, tokens, last_update,
                   wakeAt, now, acquired, idled>>

\* the caller at the head of the lock enters the critical section
Enter(c) ==
    /\ UNCHANGED <<scrapeVars, linkVars, raceVars, auxVars>>
    /\ cpc[c] = "locked"
    /\ Head(lock) = c
    /\ Attempt(c, 1)

\* asyncio.sleep returns, no earlier than asked
Wake(c) ==
    /\ UNCHANGED <<scrapeVars, linkVars, raceVars, auxVars>>
    /\ cpc[c] = "sleeping"
    /\ now >= wakeAt[c]
    /\ Attempt(c, 1)

\* the monotonic clock advances, at least until every sleep is due
Tick ==
    /\ UNCHANGED <<scrapeVars, linkVars, raceVars, auxVars>>
    /\ \/ now < MaxTime
       \/ \E c \in Callers : cpc[c] = "sleeping" /\ wakeAt[c] > now
    /\ now' = now + 1
    /\ idled' = IF \A c \in Callers : cpc[c] = "idle" THEN idled + 1 ELSE idled
    /\ UNCHANGED <<requests_per_second, burst_size, tokens, last_update,
                   lock, cpc, wakeAt, acquired>>

(***************************************************************************)
(* create_manual_link in two database sessions                             *)
(***************************************************************************)
\* get_db hands every request a Session of its own; the API server and the
\* dashboard are separate processes on one database
Sessions == {"api", "dashboard"}

LinkTxDone(s, min_id, max_id, outcome) ==
    /\ linkTx' = [linkTx EXCEPT ![s] = [pc |-> "done", product_a_id |-> min_id,
                                       product_b_id |-> max_id,
                                       outcome |-> outcome]]
    /\ UNCHANGED <<links, nextLinkId>>

\* create_manual_link up to and including _get_existing_link: the session
\* reads the rows committed so far
CheckManualLink(s, product_a_id, product_b_id) ==
    LET pair == OrderPair(product_a_id, product_b_id)
        min_id == pair[1]
        max_id == pair[2]
    IN /\ linkTx[s].pc = "idle"
       /\ UNCHANGED <<scrapeVars, rateVars, auxVars, catalog, linkRes>>
       /\ IF min_id \notin DOMAIN catalog \/ max_id \notin DOMAIN catalog
          THEN LinkTxDone(s, min_id, max_id, "not_found")
          ELSE IF catalog[min_id].source_app = catalog[max_id].source_app
          THEN LinkTxDone(s, min_id, max_id, "same_app")
          ELSE IF GetExistingLink(links, min_id, max_id) # {}
          THEN LinkTxDone(s, min_id, max_id, "exists")
          ELSE /\ linkTx' = [linkTx EXCEPT ![s] =
                                [pc |-> "checked", product_a_id |-> min_id,
                                 product_b_id |-> max_id, outcome |-> "none"]]
               /\ UNCHANGED <<links, nextLinkId>>

\* create_manual_link from db.add to db.commit: the INSERT meets the rows
\* committed by then
InsertManualLink(s) ==
    LET row == LinkRow(nextLinkId, linkTx[s].product_a_id,
                       linkTx[s].product_b_id, NULL, NULL, "manual")
    IN /\ linkTx[s].pc = "checked"
       /\ nextLinkId <= MaxLinks
       /\ UNCHANGED <<scrapeVars, rateVars, auxVars, catalog, linkRes>>
       /\ nextLinkId' = nextLinkId + 1
       /\ IF UniqueViolation(links, row)
          THEN /\ linkTx' = [linkTx EXCEPT ![s].pc = "done",
                                           ![s].outcome = "IntegrityError"]
               /\ UNCHANGED links
          ELSE /\ linkTx' = [linkTx EXCEPT ![s].pc = "done",
                                           ![s].outcome = "ok"]
               /\ links' = links \cup {row}

(***************************************************************************)
(* AsyncAPIClient.request                                                  *)
(***************************************************************************)
\* @retry(stop=stop_after_attempt(3),
\*        wait=wait_exponential(multiplier=1, min=2, max=30), ...)
stop_after_attempt == 3
wait_min == 2
wait_max == 30

\* what the transport does with one attempt: a response with a status code,
\* or an httpx exception
Answers ==
    {[status_code |-> c, fault |-> "none"] :
        c \in {200, 201, 401, 403, 404, 429, 500, 503}}
        \cup {[status_code |-> 0, fault |-> f] :
                  f \in {"httpx.TimeoutException", "httpx.NetworkError"}}

\* _handle_response: the exception a status code is turned into
HandleResponse(status_code) ==
    IF status_code = 200 THEN "none"
    ELSE IF status_code = 401 THEN "AuthenticationError"
    ELSE IF status_code = 403 THEN "AuthenticationError"
    ELSE IF status_code = 429 THEN "RateLimitError"
    ELSE IF status_code >= 500 THEN "APIError"
    ELSE "APIError"

\* the body of request: what one attempt raises
AttemptRaises(answer) ==
    IF answer.fault # "none" THEN "NetworkError"
    ELSE HandleResponse(answer.status_code)

\* a policy that retries whatever the attempt raises
RetriedAlways(exception) == exception # "none"

\* retry_if_exception_type((NetworkError, httpx.TimeoutException))
Retried(exception) ==
    exception \in {"NetworkError", "httpx.TimeoutException"}

\* wait_exponential: the seconds slept after a failed attempt
Backoff(attempt_number) ==
    Max(wait_min, Min(2 ^ (attempt_number - 1), wait_max))

\* acquired: the calls of rate_limiter.acquire() made for this request
NoRequest == [pc |-> "idle", attempt_number |-> 0, log |-> <<>>,
              raised |-> "none", slept |-> 0, calls |-> 0, acquired |-> 0]

\* the body of request up to the send: the jitter, rate_limiter.acquire()
\* and _client.request
StartAttempt(call, attempt_number) ==
    [call EXCEPT !.pc = "sent", !.attempt_number = attempt_number,
                 !.acquired = @ + 1]

\* a caller awaits request(...)
SendRequest ==
    /\ http.pc # "sent"
    /\ http.calls < MaxRequests
    /\ http' = StartAttempt([NoRequest EXCEPT !.calls = http.calls + 1], 1)
    /\ UNCHANGED <<scrapeVars, linkVars, rateVars, raceVars, tokenVars,
                   matchVars, unitVars, moreVars>>

\* one attempt ends: request returns, raises to the caller, or is retried
\* after the backoff; after the last attempt tenacity raises RetryError
AnswerRequest(answer) ==
    LET exception == AttemptRaises(answer)
        log == Append(http.log, answer)
    IN /\ http.pc = "sent"
       /\ http' =
            IF exception = "none"
            THEN [http EXCEPT !.pc = "returned", !.log = log]
            ELSE IF ~Retried(exception)
            THEN [http EXCEPT !.pc = "raised", !.log = log,
                              !.raised = exception]
            ELSE IF http.attempt_number >= stop_after_attempt
            THEN [http EXCEPT !.pc = "raised", !.log = log,
                              !.raised = "RetryError"]
            ELSE StartAttempt([http EXCEPT
                                  !.log = log,
                                  !.slept = @ + Backoff(http.attempt_number)],
                              http.attempt_number + 1)
       /\ UNCHANGED <<scrapeVars, linkVars, rateVars, raceVars, tokenVars,
                      matchVars, unitVars, moreVars>>

(***************************************************************************)
(* LinkingService: heuristic scores                                        *)
(***************************************************************************)
\* Python floats are modelled as exact fractions <<numerator, denominator>>
RECURSIVE GCD(_, _)
GCD(a, b) == IF b = 0 THEN a ELSE GCD(b, a % b)

Frac(n, d) == IF n = 0 THEN <<0, 1>> ELSE <<n \div GCD(n, d), d \div GCD(n, d)>>

FAdd(f, g) == Frac(f[1] * g[2] + g[1] * f[2], f[2] * g[2])

\* f * n / d
FScale(f, n, d) == Frac(f[1] * n, f[2] * d)

FLess(f, g) == f[1] * g[2] < g[1] * f[2]

FMin(f, g) == IF FLess(g, f) THEN g ELSE f

RECURSIVE FSum(_)
FSum(fs) == IF fs = <<>> THEN <<0, 1>> ELSE FAdd(Head(fs), FSum(Tail(fs)))

One == <<1, 1>>
Zero == <<0, 1>>

\* round(x, 4), in ten-thousandths
Round4(f) == (2 * 10000 * f[1] + f[2]) \div (2 * f[2])

\* a nullable text column is falsy when NULL or empty
Truthy(column) == ~column.isnull /\ column.text # <<>>

\* str.lower(), over the letters that occur in the catalogs below
Lower(s) ==
    LET LowerChar(c) ==
            IF c = "A" THEN "a"
            ELSE IF c = "C" THEN "c"
            ELSE IF c = "S" THEN "s"
            ELSE c
    IN [i \in DOMAIN s |-> LowerChar(s[i])]

\* str.split(): the words between runs of blanks
RECURSIVE Split(_)
Split(s) ==
    LET t == LStrip(s)
        word_end == IF \E i \in DOMAIN t : t[i] = " "
                    THEN (CHOOSE i \in DOMAIN t :
                              /\ t[i] = " "
                              /\ \A j \in 1..(i - 1) : t[j] # " ") - 1
                    ELSE Len(t)
    IN IF t = <<>> THEN <<>>
       ELSE <<SubSeq(t, 1, word_end)>> \o Split(SubSeq(t, word_end + 1, Len(t)))

\* ' '.join(words)
RECURSIVE Join(_)
Join(words) ==
    IF words = <<>> THEN <<>>
    ELSE IF Len(words) = 1 THEN words[1]
    ELSE words[1] \o <<" ">> \o Join(Tail(words))

\* _normalize_name: whitespace collapsed, lower case; the size patterns it
\* removes start with a digit, and the product names below carry none
NormalizeName(name) == Strip(Lower(Join(Split(name))))

\* the stopwords of more than two letters that the names below can spell
ENGLISH_STOPWORDS == {<<"t", "h", "e">>}

\* _tokenize_name: the words of more than two letters that are no stopwords
TokenizeName(name) ==
    LET words == Split(Lower(name))
    IN {words[i] : i \in {j \in DOMAIN words :
                            /\ Len(words[j]) > 2
                            /\ words[j] \notin ENGLISH_STOPWORDS}}

\* SequenceMatcher.get_matching_blocks: the matched characters, found by
\* splitting around the longest match. find_longest_match returns, of the
\* blocks a and b have in common (a[i .. i+k-1] = b[j .. j+k-1]), the
\* longest, of those the one that starts earliest in a, of those the one that
\* starts earliest in b
RECURSIVE Matches(_, _)
Matches(a, b) ==
    IF \A i \in DOMAIN a, j \in DOMAIN b : a[i] # b[j] THEN 0
    ELSE LET blocks ==
                 {n \in (1..Len(a)) \X (1..Len(b))
                            \X (1..Min(Len(a), Len(b))) :
                     /\ n[1] + n[3] - 1 <= Len(a)
                     /\ n[2] + n[3] - 1 <= Len(b)
                     /\ \A t \in 0..(n[3] - 1) : a[n[1] + t] = b[n[2] + t]}
             m == CHOOSE l \in blocks :
                      \A n \in blocks :
                          \/ l[3] > n[3]
                          \/ l[3] = n[3] /\ l[1] < n[1]
                          \/ l[3] = n[3] /\ l[1] = n[1] /\ l[2] <= n[2]
         IN m[3] + Matches(SubSeq(a, 1, m[1] - 1), SubSeq(b, 1, m[2] - 1))
                 + Matches(SubSeq(a, m[1] + m[3], Len(a)),
                           SubSeq(b, m[2] + m[3], Len(b)))

\* SequenceMatcher(None, a, b).ratio()
Ratio(a, b) ==
    IF Len(a) + Len(b) = 0 THEN One
    ELSE Frac(2 * Matches(a, b), Len(a) + Len(b))

\* _partial_match
PartialMatch(str_a, str_b) ==
    LET shorter == IF Len(str_a) < Len(str_b) THEN str_a ELSE str_b
        longer == IF Len(str_a) < Len(str_b) THEN str_b ELSE str_a
        words_shorter == {Split(shorter)[i] : i \in DOMAIN Split(shorter)}
        words_longer == {Split(longer)[i] : i \in DOMAIN Split(longer)}
        \* shorter in longer
        contained == \E i \in 0..(Len(longer) - Len(shorter)) :
                         SubSeq(longer, i + 1, i + Len(shorter)) = shorter
    IN IF contained
       THEN Frac(Len(shorter), Len(longer))
       ELSE IF words_shorter # {} /\ words_shorter \subseteq words_longer
       THEN Frac(Cardinality(words_shorter), Cardinality(words_longer))
       ELSE Zero

\* _multi_strategy_match: the score it returns. Hit is one strategy's
\* contribution (a score, and whether it adds a reason); hits are the
\* contributions of the strategies after the barcode test, in order
MultiStrategyMatch(product_a, product_b) ==
    LET Hit(score, reasoned) == <<[score |-> score, reasoned |-> reasoned]>>
        sku_a == Lower(Strip(product_a.sku.text))
        sku_b == Lower(Strip(product_b.sku.text))
        tokens_a == TokenizeName(product_a.name.text)
        tokens_b == TokenizeName(product_b.name.text)
        jaccard == Frac(Cardinality(tokens_a \cap tokens_b),
                        Cardinality(tokens_a \cup tokens_b))
        name_a == NormalizeName(product_a.name.text)
        name_b == NormalizeName(product_b.name.text)
        name_sim == Ratio(name_a, name_b)
        name_hit == name_a # <<>> /\ name_b # <<>> /\ FLess(<<3, 5>>, name_sim)
        sku_sim == Ratio(sku_a, sku_b)
        partial_sim == PartialMatch(name_a, name_b)
        same_brand == /\ Truthy(product_a.brand)
                      /\ Truthy(product_b.brand)
                      /\ Lower(product_a.brand.text) = Lower(product_b.brand.text)
        name_ar_a == NormalizeName(IF Truthy(product_a.name_ar)
                                   THEN product_a.name_ar.text
                                   ELSE product_a.name.text)
        name_ar_b == NormalizeName(IF Truthy(product_b.name_ar)
                                   THEN product_b.name_ar.text
                                   ELSE product_b.name.text)
        ar_sim == Ratio(name_ar_a, name_ar_b)
        hits ==
       (IF Truthy(product_a.sku) /\ Truthy(product_b.sku)
        THEN IF sku_a = sku_b
             THEN Hit(<<19, 20>>, TRUE)
             ELSE IF FLess(<<4, 5>>, sku_sim)
             THEN Hit(FScale(sku_sim, 4, 5), TRUE)
             ELSE <<>>
        ELSE <<>>)
       \o (IF tokens_a # {} /\ tokens_b # {} /\ FLess(<<1, 2>>, jaccard)
           THEN Hit(FScale(jaccard, 17, 20), TRUE)
           ELSE <<>>)
       \o (IF name_hit
           THEN Hit(FScale(name_sim, 4, 5), TRUE)
           ELSE <<>>)
       \o (IF same_brand
           THEN Hit(<<3, 10>>, TRUE)
                \o (IF name_a # <<>> /\ name_b # <<>>
                       /\ FLess(<<1, 2>>, partial_sim)
                    THEN Hit(FScale(partial_sim, 1, 2), TRUE)
                    ELSE <<>>)
           ELSE <<>>)
       \o (IF name_ar_a # <<>> /\ name_ar_b # <<>>
              /\ FLess(<<3, 5>>, ar_sim)
           THEN Hit(FScale(ar_sim, 7, 10), ~name_hit)
           ELSE <<>>)
        scores == [i \in DOMAIN hits |-> hits[i].score]
        reasons == Cardinality({i \in DOMAIN hits : hits[i].reasoned})
    IN IF /\ Truthy(product_a.barcode)
          /\ Truthy(product_b.barcode)
          /\ Strip(product_a.barcode.text) = Strip(product_b.barcode.text)
       THEN One
       ELSE IF hits = <<>>
       THEN Zero
       ELSE FMin(FAdd(FScale(FSum(scores), 1, Len(scores)),
                      <<reasons, 20>>),
                 One)

\* _calculate_similarity: the average of the scores it collects, capped at
\* 1.0
CalculateSimilarity(product_a, product_b) ==
    LET name_a == NormalizeName(product_a.name.text)
        name_b == NormalizeName(product_b.name.text)
        name_ar_a == NormalizeName(product_a.name_ar.text)
        name_ar_b == NormalizeName(product_b.name_ar.text)
        sku_sim == Ratio(product_a.sku.text, product_b.sku.text)
        cat_name_a == NormalizeName(product_a.category.text)
        cat_name_b == NormalizeName(product_b.category.text)
        name_sim == Ratio(name_a, name_b)
        name_ar_sim == Ratio(name_ar_a, name_ar_b)
        scores ==
       (IF name_a # <<>> /\ name_b # <<>>
        THEN <<FScale(name_sim, 3, 2)>>
        ELSE <<>>)
       \o (IF name_ar_a # <<>> /\ name_ar_b # <<>>
           THEN <<FScale(name_ar_sim, 3, 2)>>
           ELSE <<>>)
       \o (IF Truthy(product_a.sku) /\ Truthy(product_b.sku)
              /\ FLess(<<4, 5>>, sku_sim)
           THEN <<FScale(sku_sim, 2, 1)>>
           ELSE <<>>)
       \o (IF /\ ~product_a.category.isnull
              /\ ~product_b.category.isnull
              /\ cat_name_a # <<>>
              /\ cat_name_b # <<>>
              /\ FLess(<<4, 5>>, Ratio(cat_name_a, cat_name_b))
           THEN <<<<3, 10>>>>
           ELSE <<>>)
    IN IF scores = <<>>
       THEN Zero
       ELSE FMin(FScale(FSum(scores), 1, Len(scores)), One)

\* a NULL text column
NoText == [isnull |-> TRUE, text |-> <<>>]

\* products rows as the scoring functions read them; the first product of a
\* pair has a name, a brand and a category
ScoredA ==
    [name : {Text(<<"a", "b", "c">>), Text(<<"A", "b", "c", " ">>),
             Text(<<"a", "b", "c", " ", "x", "y", "z">>)},
     name_ar : {NoText, Text(<<"x", "y", "z">>)},
     sku : {NoText, Text(<<"s", "1", "1", "1", "1">>)},
     barcode : {NoText, Text(<<"a">>)},
     brand : {Text(<<"x">>)},
     category : {Text(<<"c">>)}]

ScoredB ==
    [name : {NoText, Text(<<"a", "b", "c">>), Text(<<"A", "b", "c", " ">>),
             Text(<<"a", "b", "d">>),
             Text(<<"a", "b", "c", " ", "x", "y", "z">>),
             Text(<<"x", "y", "z", " ", "a", "b", "c">>)},
     name_ar : {NoText, Text(<<"x", "y", "z">>)},
     sku : {NoText, Text(<<"s", "1", "1", "1", "1">>),
            Text(<<"S", "1", "1", "1", "1">>),
            Text(<<"s", "1", "1", "1", "1", "2">>)},
     barcode : {NoText, Text(<<"a", " ">>), Text(<<"b">>)},
     brand : {NoText, Text(<<"x">>)},
     category : {NoText, Text(<<"C">>)}]

NoMatch ==
    LET product == [name |-> NoText, name_ar |-> NoText, sku |-> NoText,
                    barcode |-> NoText, brand |-> NoText, category |-> NoText]
    IN [op |-> "none", product_a |-> product, product_b |-> product,
        score |-> Zero]

\* find_matches_for_product scores a pair
ScoreMultiStrategy(product_a, product_b) ==
    /\ match.op = "none"
    /\ match' = [op |-> "_multi_strategy_match", product_a |-> product_a,
                 product_b |-> product_b,
                 score |-> MultiStrategyMatch(product_a, product_b)]
    /\ UNCHANGED <<scrapeVars, linkVars, rateVars, raceVars, httpVars,
                   tokenVars, suggest, unitVars, moreVars>>

\* get_link_suggestions scores a pair
ScoreSimilarity(product_a, product_b) ==
    /\ match.op = "none"
    /\ match' = [op |-> "_calculate_similarity", product_a |-> product_a,
                 product_b |-> product_b,
                 score |-> CalculateSimilarity(product_a, product_b)]
    /\ UNCHANGED <<scrapeVars, linkVars, rateVars, raceVars, httpVars,
                   tokenVars, suggest, unitVars, moreVars>>

\* the call returns
ReturnMatch ==
    /\ match.op # "none"
    /\ match' = NoMatch
    /\ UNCHANGED <<scrapeVars, linkVars, rateVars, raceVars, httpVars,
                   tokenVars, suggest, unitVars, moreVars>>

(***************************************************************************)
(* LinkingService.get_link_suggestions                                     *)
(***************************************************************************)
\* the products table of a call: product 1 of one source, product 3 of the
\* other, product 2 of either; names "abc", "abde" and "xyz"
SuggestTables ==
    {t \in [ProductIds ->
              [source_app : SourceApps,
               name : {Text(<<"a", "b", "c">>), Text(<<"a", "b", "d", "e">>),
                       Text(<<"x", "y", "z">>)},
               name_ar : {NoText}, sku : {NoText},
               barcode : {NoText, Text(<<>>), Text(<<"a">>)},
               brand : {NoText}, category : {NoText}]] :
        /\ t[1].source_app = "ben_soliman"
        /\ t[1].name = Text(<<"a", "b", "c">>)
        /\ t[1].barcode \in {NoText, Text(<<>>)}
        /\ t[2].barcode \in {NoText, Text(<<"a">>)}
        /\ t[3].source_app = "tager_elsaada"
        /\ t[3].barcode \in {NoText, Text(<<"a">>)}}

\* the orders in which a query without ORDER BY may return the rows
RowOrders ==
    {o \in [1..Cardinality(ProductIds) -> ProductIds] :
        \A i, j \in DOMAIN o : i # j => o[i] # o[j]}

\* the pairs the three nested loops visit, in order; others are the
\* products of the other app, as products_by_app lists them (with two sources
\* there is one other app)
RECURSIVE LoopPairs(_, _, _)
LoopPairs(table, candidates, all_products) ==
    IF candidates = <<>> THEN <<>>
    ELSE LET Other(id) ==
                 table[id].source_app # table[Head(candidates)].source_app
             others == SelectSeq(all_products, Other)
         IN [i \in DOMAIN others |-> <<Head(candidates), others[i]>>]
                \o LoopPairs(table, Tail(candidates), all_products)

\* the loops: a pair seen before or linked already is skipped, a pair that
\* scores min_similarity or more is appended, and the loops are left as soon
\* as limit suggestions are collected
RECURSIVE CollectSuggestions(_, _, _, _, _, _, _)
CollectSuggestions(table, L, pairs, min_similarity, limit, suggestions, checked_pairs) ==
    IF pairs = <<>> THEN suggestions
    ELSE LET product == Head(pairs)[1]
             other_product == Head(pairs)[2]
             pair_key == <<Min(product, other_product),
                           Max(product, other_product)>>
             similarity == CalculateSimilarity(table[product],
                                               table[other_product])
             found == IF ~FLess(similarity, min_similarity)
                      THEN Append(suggestions,
                                  [product_a_id |-> product,
                                   product_b_id |-> other_product,
                                   similarity_score |-> Round4(similarity)])
                      ELSE suggestions
         IN IF pair_key \in checked_pairs
            THEN CollectSuggestions(table, L, Tail(pairs), min_similarity,
                                    limit, suggestions, checked_pairs)
            ELSE IF GetExistingLink(L, product, other_product) # {}
            THEN CollectSuggestions(table, L, Tail(pairs), min_similarity,
                                    limit, suggestions,
                                    checked_pairs \cup {pair_key})
            ELSE IF Len(found) >= limit
            THEN found
            ELSE CollectSuggestions(table, L, Tail(pairs), min_similarity,
                                    limit, found,
                                    checked_pairs \cup {pair_key})

\* list.sort(key=similarity_score, reverse=True): stable
RECURSIVE InsertByScore(_, _)
InsertByScore(sorted, s) ==
    IF sorted = <<>> THEN <<s>>
    ELSE IF Head(sorted).similarity_score >= s.similarity_score
    THEN <<Head(sorted)>> \o InsertByScore(Tail(sorted), s)
    ELSE <<s>> \o sorted

RECURSIVE SortByScore(_)
SortByScore(suggestions) ==
    IF suggestions = <<>> THEN <<>>
    ELSE InsertByScore(SortByScore(SubSeq(suggestions, 1,
                                           Len(suggestions) - 1)),
                       suggestions[Len(suggestions)])

\* what get_link_suggestions returns; products_no_barcode are the products
\* with barcode NULL or '', of the source asked for
LinkSuggestions(table, L, order_a, order_b, min_similarity, limit, source_app) ==
    LET Wanted(id) ==
            /\ table[id].barcode.isnull \/ table[id].barcode.text = <<>>
            /\ source_app = NoFilter \/ table[id].source_app = source_app
        products_no_barcode == SelectSeq(order_a, Wanted)
        pairs == LoopPairs(table, products_no_barcode, order_b)
        sorted == SortByScore(CollectSuggestions(table, L, pairs,
                                                 min_similarity, limit,
                                                 <<>>, {}))
    IN SubSeq(sorted, 1, Min(limit, Len(sorted)))

NoSuggest == [op |-> "none", table |-> <<>>, links |-> {},
              min_similarity |-> Zero, limit |-> 0, source_app |-> NoFilter,
              result |-> <<>>]

GetLinkSuggestions(table, L, order_a, order_b, min_similarity, limit, source_app) ==
    /\ suggest.op = "none"
    /\ suggest' = [op |-> "get_link_suggestions", table |-> table,
                   links |-> L, min_similarity |-> min_similarity,
                   limit |-> limit, source_app |-> source_app,
                   result |-> LinkSuggestions(table, L, order_a, order_b,
                                              min_similarity, limit,
                                              source_app)]
    /\ UNCHANGED <<scrapeVars, linkVars, rateVars, raceVars, httpVars,
                   tokenVars, match, unitVars, moreVars>>

ReturnSuggestions ==
    /\ suggest.op # "none"
    /\ suggest' = NoSuggest
    /\ UNCHANGED <<scrapeVars, linkVars, rateVars, raceVars, httpVars,
                   tokenVars, match, unitVars, moreVars>>

(***************************************************************************)
(* LinkingService: unit matches and unit link suggestions                  *)
(***************************************************************************)
\* str.replace(old, new)
RECURSIVE Replace(_, _, _)
Replace(s, old, new) ==
    IF Len(s) < Len(old) THEN s
    ELSE IF SubSeq(s, 1, Len(old)) = old
    THEN new \o Replace(SubSeq(s, Len(old) + 1, Len(s)), old, new)
    ELSE <<Head(s)>> \o Replace(Tail(s), old, new)

\* the Arabic letters of the unit names below, one symbol each
ArabicCarton == <<"kaf", "ra", "ta", "waw", "nun">>
Carton == <<"c", "a", "r", "t", "o", "n">>

RECURSIVE ApplyMappings(_, _)
ApplyMappings(name, mappings) ==
    IF mappings = <<>> THEN name
    ELSE ApplyMappings(Replace(name, Head(mappings)[1], Head(mappings)[2]),
                       Tail(mappings))

\* _normalize_unit_name: lower case, the entries of mappings that the unit
\* names below can contain replaced in the order of the dict, then
\* re.sub(r'\d+', '', name)
NormalizeUnitName(name) ==
    LET mappings == <<<<ArabicCarton \o <<"ta_marbuta">>, Carton>>,
                      <<ArabicCarton, Carton>>>>
        NoDigit(c) ==
            c \notin {"0", "1", "2", "3", "4", "5", "6", "7", "8", "9"}
    IN Strip(SelectSeq(ApplyMappings(Strip(Lower(name)), mappings), NoDigit))

\* product_units rows with their latest price record (price 0: no record;
\* price per base unit in whole pounds)
SourceUnits ==
    [name : {Text(Carton), Text(ArabicCarton \o <<"ta_marbuta">>)},
     factor : {NULL, 6, 12},
     barcode : {NoText, Text(<<"u">>)},
     price : {0, 60},
     is_active : BOOLEAN]

TargetUnits ==
    [name : {Text(Carton), Text(ArabicCarton),
             Text(<<"C", "a", "r", "t", "o", "n", " ", "2", "4">>),
             Text(<<"b", "o", "x">>)},
     factor : {NULL, 6, 10, 12, 24},
     barcode : {NoText, Text(<<"u", " ">>)},
     price : {0, 60, 240},
     is_active : BOOLEAN]

\* min / max
MinOverMax(f, g) ==
    IF FLess(f, g) THEN Frac(f[1] * g[2], f[2] * g[1])
    ELSE Frac(g[1] * f[2], g[2] * f[1])

\* similarity of the normalised unit names, 0 when one of them is empty
UnitNameSimilarity(source_unit, target_unit) ==
    LET name_a == NormalizeUnitName(source_unit.name.text)
        name_b == NormalizeUnitName(target_unit.name.text)
    IN IF name_a # <<>> /\ name_b # <<>> THEN Ratio(name_a, name_b) ELSE Zero

\* the score find_unit_matches gives a target unit that has no barcode match
UnitScore(source_unit, target_unit) ==
    LET factor_score ==
            IF source_unit.factor = target_unit.factor THEN <<2, 5>>
            ELSE IF /\ source_unit.factor # NULL
                    /\ target_unit.factor # NULL
                    /\ FLess(<<4, 5>>,
                             MinOverMax(<<source_unit.factor, 1>>,
                                        <<target_unit.factor, 1>>))
            THEN <<1, 5>>
            ELSE Zero
        name_sim == UnitNameSimilarity(source_unit, target_unit)
        name_score == IF FLess(<<7, 10>>, name_sim)
                      THEN FScale(name_sim, 3, 10)
                      ELSE Zero
        price_score ==
            IF /\ source_unit.price # 0
               /\ source_unit.factor # NULL
               /\ target_unit.price # 0
               /\ target_unit.factor # NULL
               /\ FLess(<<7, 10>>,
                        MinOverMax(Frac(source_unit.price, source_unit.factor),
                                   Frac(target_unit.price, target_unit.factor)))
            THEN <<1, 5>>
            ELSE Zero
    IN FAdd(factor_score, FAdd(name_score, price_score))

\* find_unit_matches for one target unit: a match, or nothing
NoUnitMatch == [matched |-> FALSE, score |-> 0, factor |-> NULL]

FindUnitMatch(source_unit, target_unit) ==
    IF ~target_unit.is_active
    THEN NoUnitMatch
    ELSE IF /\ Truthy(source_unit.barcode)
            /\ Truthy(target_unit.barcode)
            /\ Strip(source_unit.barcode.text) = Strip(target_unit.barcode.text)
    THEN [matched |-> TRUE, score |-> Round4(One),
          factor |-> target_unit.factor]
    ELSE IF FLess(<<3, 10>>, UnitScore(source_unit, target_unit))
    THEN [matched |-> TRUE,
          score |-> Round4(UnitScore(source_unit, target_unit)),
          factor |-> target_unit.factor]
    ELSE NoUnitMatch

NoUnitSuggest == [op |-> "none", unit_a |-> <<>>, unit_b |-> <<>>,
                  linked |-> FALSE, suggested |-> FALSE, score |-> 0,
                  factor_warning |-> FALSE]

\* get_unit_link_suggestions for a product whose unit is unit_a and a product
\* whose unit is unit_b
GetUnitLinkSuggestions(unit_a, unit_b, linked) ==
    LET found == IF unit_a.is_active
                 THEN FindUnitMatch(unit_a, unit_b)
                 ELSE NoUnitMatch
        suggested == found.matched /\ ~linked
    IN /\ unitMatch.op = "none"
       /\ unitMatch' =
            [op |-> "get_unit_link_suggestions", unit_a |-> unit_a,
             unit_b |-> unit_b, linked |-> linked, suggested |-> suggested,
             score |-> IF suggested THEN found.score ELSE 0,
             factor_warning |->
                 /\ suggested
                 /\ unit_a.factor # NULL
                 /\ found.factor # NULL
                 /\ unit_a.factor # found.factor]
       /\ UNCHANGED <<scrapeVars, linkVars, rateVars, raceVars, httpVars,
                      tokenVars, matchVars, moreVars>>

ReturnUnitSuggestions ==
    /\ unitMatch.op # "none"
    /\ unitMatch' = NoUnitSuggest
    /\ UNCHANGED <<scrapeVars, linkVars, rateVars, raceVars, httpVars,
                   tokenVars, matchVars, moreVars>>

(***************************************************************************)
(* TokenManager: the credential row of one source                          *)
(***************************************************************************)
\* time in minutes; NULL stands for a missing token_expires_at, and the
\* clock starts at 1
NoCredential == [found |-> FALSE, is_active |-> FALSE, access_token |-> NoText,
                 token_expires_at |-> NULL]

\* buffer = timedelta(minutes=5)
buffer == 5

\* a test of the expiry against the clock alone
OutlastsNow(token_expires_at, utcnow) == token_expires_at > utcnow

\* the test of is_token_valid: the expiry lies beyond the safety margin
OutlastsBuffer(token_expires_at, utcnow) == token_expires_at > utcnow + buffer

\* get_credential: the active row of the source, if any
GetCredential(row) == IF row.found /\ row.is_active THEN row ELSE NoCredential

\* is_token_valid, called at utcnow
IsTokenValid(row, utcnow) ==
    LET credential == GetCredential(row)
    IN IF ~credential.found \/ ~Truthy(credential.access_token)
       THEN FALSE
       ELSE IF credential.token_expires_at = NULL
       THEN TRUE
       ELSE OutlastsBuffer(credential.token_expires_at, utcnow)

\* get_access_token, called at utcnow: the token, or None
GetAccessToken(row, utcnow) ==
    LET credential == GetCredential(row)
    IN IF ~credential.found \/ ~Truthy(credential.access_token)
       THEN NoText
       ELSE IF /\ credential.token_expires_at # NULL
               /\ credential.token_expires_at < utcnow
       THEN NoText
       ELSE credential.access_token

LeaveTokenRest ==
    UNCHANGED <<scrapeVars, linkVars, rateVars, raceVars, httpVars,
                matchVars, unitVars, moreVars>>

\* the credentials row of the source as found in the table
SeedCredential(row) ==
    /\ ~token.credential.found
    /\ token' = [token EXCEPT !.credential = row, !.op = "none"]
    /\ LeaveTokenRest

\* store_tokens: nothing without an active row
StoreTokens(access_token, expires_in_seconds) ==
    /\ token' =
         IF GetCredential(token.credential).found
         THEN [token EXCEPT !.credential.access_token = access_token,
                            !.credential.token_expires_at =
                                token.utcnow + expires_in_seconds,
                            !.op = "store_tokens"]
         ELSE [token EXCEPT !.op = "store_tokens"]
    /\ LeaveTokenRest

\* datetime.utcnow() advances
ClockTick ==
    /\ token.utcnow < MaxClock
    /\ token' = [token EXCEPT !.utcnow = @ + 1, !.op = "none"]
    /\ LeaveTokenRest

CallIsTokenValid ==
    /\ token' = [token EXCEPT !.op = "is_token_valid",
                              !.valid = IsTokenValid(token.credential,
                                                     token.utcnow)]
    /\ LeaveTokenRest

CallGetAccessToken ==
    /\ token' = [token EXCEPT !.op = "get_access_token",
                              !.returned = GetAccessToken(token.credential,
                                                          token.utcnow)]
    /\ LeaveTokenRest

(***************************************************************************)
(* run_full_scrape and the categories: which categories a run has          *)
(* upserted when it processes a product                                    *)
(***************************************************************************)
\* the categories the source serves, and the adapters: one that takes the
\* run of BaseScraper and one ZahCode adapter
Categories == {"cat1", "cat2"}
Adapters == {"tager_elsaada", "el_rabie"}
ZahCodeApps == {"el_rabie"}

\* a product payload of the API: its id and the category it carries
RawProducts == [ext : ExternalIds, category_id : Categories]

NoRawProduct == [ext |-> "none", category_id |-> "none"]

\* upserted: categories rows of the source; products: the payloads still to
\* process; last: the payload process_product was last called with
NoCategoryRun ==
    [pc |-> "idle", adapter |-> "none", upserted |-> {}, products |-> {},
     last |-> NoRawProduct, lost |-> FALSE]

\* fetch_categories of an adapter: the list the source serves, or the empty
\* list when the request failed (the exception is logged and swallowed)
FetchCategoryList(result) == IF result = "ok" THEN Categories ELSE {}

\* run_full_scrape up to the categories loop: every fetched category is
\* upserted
UpsertCategories(adapter, result) ==
    /\ catRun.pc = "idle"
    /\ catRun' = [catRun EXCEPT
                     !.pc = "cats",
                     !.adapter = adapter,
                     !.upserted = @ \cup FetchCategoryList(result),
                     !.products = {},
                     !.last = NoRawProduct,
                     !.lost = result # "ok"]
    /\ UNCHANGED <<scrapeVars, linkVars, rateVars, raceVars, httpVars,
                   tokenVars, matchVars, unitVars, unitPrices, matrix, auth>>

\* fetch_products of the adapters that take the run of BaseScraper: the
\* payloads carry the category the API gives them; at most one payload per id
FetchRunProducts(batch) ==
    /\ catRun.pc = "cats"
    /\ catRun.adapter \notin ZahCodeApps
    /\ \A p, q \in batch : p.ext = q.ext => p = q
    /\ catRun' = [catRun EXCEPT !.pc = "products", !.products = batch]
    /\ UNCHANGED <<scrapeVars, linkVars, rateVars, raceVars, httpVars,
                   tokenVars, matchVars, unitVars, unitPrices, matrix, auth>>

\* ZahCodeBaseScraper.fetch_all_products: the category list is fetched
\* again, the products of each category of that list are fetched and tagged
\* with it, an id is kept once
FetchAllProducts(result, batch) ==
    /\ catRun.pc = "cats"
    /\ catRun.adapter \in ZahCodeApps
    /\ \A p, q \in batch : p.ext = q.ext => p = q
    /\ \A p \in batch : p.category_id \in FetchCategoryList(result)
    /\ catRun' = [catRun EXCEPT !.pc = "products", !.products = batch]
    /\ UNCHANGED <<scrapeVars, linkVars, rateVars, raceVars, httpVars,
                   tokenVars, matchVars, unitVars, unitPrices, matrix, auth>>

\* one turn of the product loop of run_full_scrape
ProcessRawProduct(product_data) ==
    /\ catRun.pc = "products"
    /\ product_data \in catRun.products
    /\ catRun' = [catRun EXCEPT !.products = @ \ {product_data},
                                !.last = product_data]
    /\ UNCHANGED <<scrapeVars, linkVars, rateVars, raceVars, httpVars,
                   tokenVars, matchVars, unitVars, unitPrices, matrix, auth>>

\* the product loop is over: _finish_job(COMPLETED)
FinishCategoryRun ==
    /\ catRun.pc = "products"
    /\ catRun.products = {}
    /\ catRun' = [catRun EXCEPT !.pc = "idle"]
    /\ UNCHANGED <<scrapeVars, linkVars, rateVars, raceVars, httpVars,
                   tokenVars, matchVars, unitVars, unitPrices, matrix, auth>>

(***************************************************************************)
(* price_records of one product, written by the repository path of         *)
(* process_product and by the per-variant INSERT of save_to_database       *)
(***************************************************************************)
\* the units a record of the product can carry: none (unit_id NULL) or one
\* of its variants
PriceUnits == {NULL, 1, 2}

\* rows: price_records of the product; utcnow: the clock behind recorded_at;
\* the other fields are the history of the last call
NoUnitPrices ==
    [rows |-> {}, utcnow |-> 0, op |-> "none", unit_id |-> NULL,
     price |-> 0, is_available |-> FALSE, appended |-> FALSE]

\* PriceRepository.create and the INSERT of the script: the columns read
\* back by the decision
PriceRow(unit_id, price, is_available, recorded_at) ==
    [unit_id |-> unit_id, price |-> price, is_available |-> is_available,
     recorded_at |-> recorded_at]

\* PriceRepository.get_latest_for_product: WHERE product_id = :id, any unit
GetLatestForProduct(rows) == LatestSet(rows)

\* the price step of BaseScraper.process_product: should_record_price over
\* the latest record of the product, then create without a unit_id
RecordProductPrice(price, is_available) ==
    /\ unitPrices.utcnow < MaxPriceCalls
    /\ LET found == GetLatestForProduct(unitPrices.rows)
           latest == IF found = {} THEN PriceRow(NULL, 0, FALSE, 0)
                     ELSE CHOOSE p \in found : TRUE
           should_record ==
               ShouldRecordPrice(found # {}, latest, price, is_available)
           recorded_at == unitPrices.utcnow + 1
       IN unitPrices' =
              [rows |-> IF should_record
                        THEN unitPrices.rows \cup
                             {PriceRow(NULL, price, is_available, recorded_at)}
                        ELSE unitPrices.rows,
               utcnow |-> recorded_at,
               op |-> "process_product",
               unit_id |-> NULL,
               price |-> price,
               is_available |-> is_available,
               appended |-> should_record]
    /\ UNCHANGED <<scrapeVars, linkVars, rateVars, raceVars, httpVars,
                   tokenVars, matchVars, unitVars, catRun, matrix, auth>>

\* save_to_database, one variant of the product: the price record of the
\* unit is inserted without a look at the records already stored
SaveVariantPrice(unit_id, var_price, is_available) ==
    /\ unitPrices.utcnow < MaxPriceCalls
    /\ unit_id # NULL
    /\ LET now_ == unitPrices.utcnow + 1
       IN unitPrices' =
              [rows |-> unitPrices.rows \cup
                        {PriceRow(unit_id, var_price, is_available, now_)},
               utcnow |-> now_,
               op |-> "save_to_database",
               unit_id |-> unit_id,
               price |-> var_price,
               is_available |-> is_available,
               appended |-> TRUE]
    /\ UNCHANGED <<scrapeVars, linkVars, rateVars, raceVars, httpVars,
                   tokenVars, matchVars, unitVars, catRun, matrix, auth>>

(***************************************************************************)
(* GET /comparison/matrix: the row of one primary product                  *)
(*                                                                         *)
(* Prices are counted in piastres (hundredths of a pound), the precision   *)
(* of price_records.price; None is written 0 where the code tests the      *)
(* value for truth, which None and 0 both fail.                            *)
(***************************************************************************)
ALL_APPS == <<"ben_soliman", "tager_elsaada", "el_rabie", "gomla_shoaib">>

\* a product_units row of a product
UnitRow(id, factor, is_active) ==
    [id |-> id, factor |-> factor, is_active |-> is_active]

\* the product_units and price_records rows of one product
Shelf(units, records) == [units |-> units, records |-> records]

\* price // factor: the quotient cut off below the piastre
TruncatePerBase(price, factor) == price \div factor

\* round(price / factor, 2), in piastres; the factors below never put the
\* quotient half way between two piastres
RoundPerBase(price, factor) == (2 * price + factor) \div (2 * factor)

\* _get_units_with_prices: the active units with the latest price of the
\* unit or else of the product, or a virtual unit of factor 1 with the latest
\* price of the product when it has no active unit
GetUnitsWithPrices(shelf) ==
    LET units == {u \in shelf.units : u.is_active}
        Latest(S) == IF S = {} THEN PriceRow(NULL, 0, TRUE, 0)
                     ELSE CHOOSE r \in LatestSet(S) : TRUE
        OfUnit(u) == {r \in shelf.records : r.unit_id = u.id}
        OfProduct == {r \in shelf.records : r.unit_id = NULL}
        Info(u) ==
            LET latest_price == IF OfUnit(u) # {} THEN Latest(OfUnit(u))
                                ELSE Latest(OfProduct)
                price == latest_price.price
                price_per_base == IF price # 0 /\ u.factor # 0
                                  THEN RoundPerBase(price, u.factor)
                                  ELSE price
            IN [unit_id |-> u.id, factor |-> u.factor, price |-> price,
                is_available |-> latest_price.is_available,
                price_per_base |-> price_per_base]
        latest_any == Latest(shelf.records)
    IN IF units # {}
       THEN {Info(u) : u \in units}
       ELSE {[unit_id |-> 0, factor |-> 1, price |-> latest_any.price,
              is_available |-> latest_any.is_available,
              price_per_base |-> latest_any.price]}

\* _build_app_item: best_price, the lowest price_per_base of the available
\* units that have one
BuildAppItem(shelf) ==
    LET units == GetUnitsWithPrices(shelf)
        available_units ==
            {u \in units : u.is_available /\ u.price_per_base # 0}
    IN [units |-> units,
        best_price |->
            IF available_units = {} THEN 0
            ELSE CHOOSE m \in {u.price_per_base : u \in available_units} :
                     \A u \in available_units : m <= u.price_per_base]

\* the links of all_links that have the product on one side
LinkedProductIds(L, product_id) ==
    {l.product_b_id : l \in {k \in L : k.is_active
                                       /\ k.product_a_id = product_id}}
    \cup {l.product_a_id : l \in {k \in L : k.is_active
                                            /\ k.product_b_id = product_id}}

\* the products the loop over ALL_APPS can settle on for one app: the
\* primary, else the rows of the barcode query, else the linked products of
\* the app
MatchedProducts(table, L, primary, app) ==
    LET barcode_match ==
            {p \in DOMAIN table : /\ table[p].source_app = app
                                  /\ table[p].barcode = table[primary].barcode
                                  /\ table[p].is_active}
        linked == {p \in LinkedProductIds(L, primary) :
                      p \in DOMAIN table /\ table[p].source_app = app}
    IN IF app = table[primary].source_app THEN {primary}
       ELSE IF Truthy(table[primary].barcode) /\ barcode_match # {}
            THEN barcode_match
            ELSE linked

\* min(all_best_prices, key = price): the first app, in the order of
\* ALL_APPS, whose item has the lowest best_price
BestDeal(cells, shelves) ==
    LET Best(i) == IF cells[ALL_APPS[i]] = NULL THEN 0
                   ELSE BuildAppItem(shelves[cells[ALL_APPS[i]]]).best_price
        all_best_prices == {i \in DOMAIN ALL_APPS : Best(i) # 0}
    IN IF all_best_prices = {}
       THEN [best_deal_app |-> "none", best_deal_price |-> 0]
       ELSE LET i == CHOOSE j \in all_best_prices :
                         \A k \in all_best_prices :
                             \/ Best(j) < Best(k)
                             \/ Best(j) = Best(k) /\ j <= k
            IN [best_deal_app |-> ALL_APPS[i], best_deal_price |-> Best(i)]

NoMatrix ==
    [op |-> "none", table |-> <<>>, shelves |-> <<>>, links |-> {},
     primary |-> 0, cells |-> <<>>, best_deal_app |-> "none",
     best_deal_price |-> 0]

\* the catalogs the matrix is asked for: product 1 of tager_elsaada, product
\* 2 of ben_soliman, product 3 of ben_soliman or el_rabie
MatrixTables ==
    {t \in [ProductIds -> [source_app : {"ben_soliman", "tager_elsaada",
                                         "el_rabie"},
                           barcode : {NoBarcode, Text(<<>>), Text(<<"a">>)},
                           is_active : BOOLEAN]] :
        /\ t[1].source_app = "tager_elsaada"
        /\ t[1].is_active
        /\ t[2].source_app = "ben_soliman"
        /\ t[2].barcode # NoBarcode
        /\ t[3].source_app # "tager_elsaada"
        /\ t[3].barcode # Text(<<>>)}

\* product_links rows between product 1 and the others, active or not
MatrixLinks ==
    LET Rows(b) == {{}, {LinkRow(b, 1, b, NULL, NULL, "manual")},
                    {[LinkRow(b, 1, b, NULL, NULL, "manual")
                         EXCEPT !.is_active = FALSE]}}
    IN {x \cup y : x \in Rows(2), y \in Rows(3)}

\* units and price records of a product: a case of 3 at 10.00; a piece at
\* 4.00 and a case of 3 at 10.01; a unit without factor at 5.00; a case of 3
\* that is out of stock; a case of 3 priced by the product-level record 9.00;
\* an inactive piece whose record 3.33 is the latest of the product; a case
\* of 3 at 0.01; nothing at all
Shelves ==
    {Shelf({UnitRow(1, 3, TRUE)}, {PriceRow(1, 1000, TRUE, 1)}),
     Shelf({UnitRow(1, 1, TRUE), UnitRow(2, 3, TRUE)},
           {PriceRow(1, 400, TRUE, 1), PriceRow(2, 1001, TRUE, 2)}),
     Shelf({UnitRow(1, 0, TRUE)}, {PriceRow(1, 500, TRUE, 1)}),
     Shelf({UnitRow(1, 3, TRUE)}, {PriceRow(1, 600, FALSE, 1)}),
     Shelf({UnitRow(1, 3, TRUE)}, {PriceRow(NULL, 900, TRUE, 1)}),
     Shelf({UnitRow(1, 1, FALSE)},
           {PriceRow(NULL, 300, TRUE, 1), PriceRow(1, 333, TRUE, 2)}),
     Shelf({UnitRow(1, 3, TRUE)}, {PriceRow(1, 1, TRUE, 1)}),
     Shelf({}, {})}

\* get_comparison_matrix, for one primary product of the page; first() and
\* the order of all_links are left to the database, which puts any one
\* product first
GetComparisonMatrix(table, shelves, L, primary) ==
    /\ matrix.op = "none"
    /\ table[primary].is_active
    /\ \E first \in ProductIds :
          LET Cell(app) ==
                  LET matched == MatchedProducts(table, L, primary, app)
                  IN IF matched = {} THEN NULL
                     ELSE IF first \in matched THEN first
                     ELSE CHOOSE p \in matched : TRUE
              cells == [app \in {ALL_APPS[i] : i \in DOMAIN ALL_APPS} |->
                           Cell(app)]
          IN
             matrix' = [op |-> "matrix", table |-> table,
                        shelves |-> shelves, links |-> L,
                        primary |-> primary, cells |-> cells,
                        best_deal_app |->
                            BestDeal(cells, shelves).best_deal_app,
                        best_deal_price |->
                            BestDeal(cells, shelves).best_deal_price]
    /\ UNCHANGED <<scrapeVars, linkVars, rateVars, raceVars, httpVars,
                   tokenVars, matchVars, unitVars, catRun, unitPrices, auth>>

\* the response has been sent
ReturnMatrix ==
    /\ matrix.op = "matrix"
    /\ matrix' = NoMatrix
    /\ UNCHANGED <<scrapeVars, linkVars, rateVars, raceVars, httpVars,
                   tokenVars, matchVars, unitVars, catRun, unitPrices, auth>>

(***************************************************************************)
(* BaseScraper.ensure_authenticated of the adapters of one source, called  *)
(* by two runs that share the credential row                               *)
(***************************************************************************)
AuthAdapters == {"ben_soliman", "tager_elsaada", "el_rabie"}

\* the token a login or a registration hands out
FreshToken == Text(<<"n">>)

\* expires_in_seconds of the login of Ben Soliman (about ten years), in
\* minutes of the model: beyond every clock value
LongLived == 100

\* token: what set_auth_token was last called with; login: the call got its
\* token from a login or a registration; expires, at: the expiry of a stored
\* token and the clock when it was loaded; saw: the logins done when the call
\* found no valid token; raced: another login came between that and its own
NoAuthCall ==
    [pc |-> "idle", token |-> NoText, login |-> FALSE, expires |-> NULL,
     at |-> 0, saw |-> 0, raced |-> FALSE]

NoAuth ==
    [adapter |-> "none", logins |-> 0, call |-> [c \in Callers |-> NoAuthCall]]

\* set_auth_token with the stored token, and return
UseStoredToken(credential, utcnow) ==
    [NoAuthCall EXCEPT !.pc = "returned",
                       !.token = credential.access_token,
                       !.expires = credential.token_expires_at,
                       !.at = utcnow]

\* set_auth_token with the token of a login or registration, and return
UseFreshToken(call, logins) ==
    [call EXCEPT !.pc = "returned", !.token = FreshToken, !.login = TRUE,
                 !.raced = logins > call.saw]

\* the row after store_tokens: untouched without an active row
StoredTokens(row, access_token, utcnow, expires_in_seconds) ==
    IF GetCredential(row).found
    THEN [row EXCEPT !.access_token = access_token,
                     !.token_expires_at = utcnow + expires_in_seconds]
    ELSE row

\* ensure_authenticated up to the call of authenticate: a valid stored
\* token is loaded into the client
CheckStoredToken(c, adapter) ==
    /\ auth.call[c].pc \in {"idle", "returned", "raised"}
    /\ auth.adapter \in {"none", adapter}
    /\ LET is_valid == IsTokenValid(token.credential, token.utcnow)
           stored == GetAccessToken(token.credential, token.utcnow)
       IN auth' =
              [auth EXCEPT
                  !.adapter = adapter,
                  !.call[c] =
                      IF is_valid /\ Truthy(stored)
                      THEN UseStoredToken(GetCredential(token.credential),
                                          token.utcnow)
                      ELSE [NoAuthCall EXCEPT !.pc = "authenticate",
                                              !.saw = auth.logins]]
    /\ UNCHANGED <<scrapeVars, linkVars, rateVars, raceVars, httpVars,
                   tokenVars, matchVars, unitVars, catRun, unitPrices, matrix>>

\* authenticate of the adapter and the end of ensure_authenticated.
\* answer: what the login request brings; registered: what the registration
\* request of a ZahCode adapter brings; expires_in: the lifetime in the
\* login response of Tager elSaada
Authenticate(c, answer, registered, expires_in) ==
    /\ auth.call[c].pc = "authenticate"
    /\ auth.logins < MaxLogins
    /\ LET call == auth.call[c]
           credential == GetCredential(token.credential)
           cached_token == GetAccessToken(token.credential, token.utcnow)
           Raised == [call EXCEPT !.pc = "raised"]
           Fresh == UseFreshToken(call, auth.logins)
           Store(expires_in_seconds) ==
               StoredTokens(token.credential, FreshToken, token.utcnow,
                            expires_in_seconds)
           \* what the call ends with, the row it leaves, whether it logged in
           end ==
               IF auth.adapter = "ben_soliman"
               THEN IF ~credential.found
                    THEN <<Raised, token.credential, FALSE>>
                    ELSE IF Truthy(cached_token)
                    THEN <<UseStoredToken(credential, token.utcnow),
                           token.credential, FALSE>>
                    ELSE IF answer = "token"
                    THEN <<Fresh, Store(LongLived), TRUE>>
                    ELSE <<Raised, token.credential, FALSE>>
               ELSE IF auth.adapter = "tager_elsaada"
               THEN IF ~credential.found
                    THEN <<Raised, token.credential, FALSE>>
                    ELSE IF answer = "token"
                    THEN <<Fresh, Store(expires_in), TRUE>>
                    ELSE <<Raised, token.credential, FALSE>>
               \* _get_fresh_token: login with the stored credential, else
               \* _register_new_account and store_credential, whose INSERT
               \* fails on the unique source_app when an inactive row exists
               ELSE IF credential.found /\ answer = "token"
                    THEN <<Fresh, token.credential, TRUE>>
                    ELSE IF ~registered
                    THEN <<Raised, token.credential, FALSE>>
                    ELSE IF credential.found
                    THEN <<Fresh, token.credential, TRUE>>
                    ELSE IF token.credential.found
                    THEN <<Raised, token.credential, FALSE>>
                    ELSE <<Fresh, [NoCredential EXCEPT !.found = TRUE,
                                                      !.is_active = TRUE],
                           TRUE>>
       IN /\ auth' = [auth EXCEPT !.call[c] = end[1],
                                  !.logins = IF end[3] THEN @ + 1 ELSE @]
          /\ token' = [token EXCEPT !.credential = end[2], !.op = "none"]
    /\ UNCHANGED <<scrapeVars, linkVars, rateVars, raceVars, httpVars,
                   matchVars, unitVars, catRun, unitPrices, matrix>>

(***************************************************************************)
(* Initial state; specifications of the scraping subsystem                 *)
(***************************************************************************)
\* the state after construction: empty tables, idle runs; with linking, a
\* catalog of products 1 and 2 of one source and product 3 of the other
\* (the linking service is not called otherwise); with limiting, a limiter
\* of any rate and burst (the default limiter, never called, otherwise)
Init(linking, limiting) ==
    /\ jobs = <<>>
    /\ nextJobId = 1
    /\ products = {}
    /\ nextProductId = 1
    /\ prices = {}
    /\ nextPriceId = 1
    /\ runStarts = 0
    /\ pc = [r \in Runs |-> "idle"]
    /\ sess = [r \in Runs |-> NoSession]
    /\ stats = [r \in Runs |-> ZeroStats]
    /\ fed = [r \in Runs |-> NoFed]
    /\ pendingItem = [r \in Runs |-> NoPending]
    /\ lastUpsert = [r \in Runs |-> NoUpsert]
    /\ feed = [k \in ProductKeys |-> NoFeed]
    /\ clean = TRUE
    /\ catalog \in IF linking
                   THEN {c \in [ProductIds -> [source_app : SourceApps,
                                               barcode : Barcodes]] :
                            /\ c[1].source_app = "ben_soliman"
                            /\ c[2].source_app = "ben_soliman"
                            /\ c[3].source_app = "tager_elsaada"
                            /\ c[2].barcode \in {NoBarcode, Text(<<"a">>)}
                            /\ c[3].barcode \in {Text(<<>>), Text(<<" ">>),
                                                 Text(<<"a">>)}}
                   ELSE {<<>>}
    /\ links = {}
    /\ nextLinkId = 1
    /\ linkRes = NoLinkRes
    /\ requests_per_second \in IF limiting THEN Rates ELSE {2}
    /\ burst_size \in IF limiting THEN Bursts ELSE {6}
    /\ tokens = burst_size
    /\ last_update = 0
    /\ lock = <<>>
    /\ cpc = [c \in Callers |-> "idle"]
    /\ wakeAt = [c \in Callers |-> 0]
    /\ now = 0
    /\ acquired = 0
    /\ idled = 0
    /\ linkTx = [s \in Sessions |->
                    [pc |-> "idle", product_a_id |-> 0, product_b_id |-> 0,
                     outcome |-> "none"]]
    /\ http = NoRequest
    /\ token = [credential |-> NoCredential, utcnow |-> 1, op |-> "none",
                 valid |-> FALSE, returned |-> NoText]
    /\ match = NoMatch
    /\ suggest = NoSuggest
    /\ unitMatch = NoUnitSuggest
    /\ catRun = NoCategoryRun
    /\ unitPrices = NoUnitPrices
    /\ matrix = NoMatrix
    /\ auth = NoAuth

\* the steps of a run around its product loop
RunLifecycle(R) ==
    \/ \E r \in R : \E s \in RunSources(r) : StartJob(r, s)
    \/ \E r \in R, ok \in BOOLEAN : EnsureAuthenticated(r, ok)
    \/ \E r \in R, result \in FetchResults : FetchCategories(r, result)
    \/ \E r \in R, result \in FetchResults : FetchProducts(r, result)
    \/ \E r \in R : FinishBatch(r)
    \/ \E r \in R : SessionExit(r)

\* the job control surface, next to scheduled runs whose product list is empty
JobsNext ==
    /\ UNCHANGED <<linkVars, rateVars, raceVars, auxVars>>
    /\ \/ \E s \in SourceApps \cup {UnknownApp} : TriggerScrapeService(s)
       \/ \E s \in SourceApps : TriggerScrapeRoute(s)
       \/ \E j \in 1..MaxJobs : CancelScrapeJobRoute(j)
       \/ \E j \in 1..MaxJobs : CancelJob(j)
       \/ \E j \in 1..MaxJobs, n \in {0, 1}, st \in Statuses \cup {NoStatus} :
             UpdateJobProgress(j, n, st)
       \/ RunLifecycle({"scheduled"})

SpecJobs == Init(FALSE, FALSE) /\ [][JobsNext]_vars

\* consecutive scrape cycles of the scheduled job
ScrapeNext ==
    /\ UNCHANGED <<linkVars, rateVars, raceVars, auxVars>>
    /\ \/ RunLifecycle({"scheduled"})
       \/ \E item \in Items : ProcessItem("scheduled", item)

SpecScrape == Init(FALSE, FALSE) /\ [][ScrapeNext]_vars

\* the scheduled job overlapping with run_single_scrape, both fetching
\* well-formed payloads of one price
OverlapItems == {i \in OkItems : i.price = 10000 /\ i.avail}

OverlapNext ==
    /\ UNCHANGED <<linkVars, rateVars, raceVars, auxVars>>
    /\ \/ RunLifecycle(Runs)
       \/ \E r \in Runs, item \in OverlapItems : ProcessItem(r, item)
       \/ \E r \in Runs : Resume(r)
       \/ \E r \in Runs : DeadlockDetected(r)

SpecOverlap == Init(FALSE, FALSE) /\ [][OverlapNext]_vars

(***************************************************************************)
(* Specifications of the linking service and of the rate limiter           *)
(***************************************************************************)
LinkNext ==
    \/ \E a, b \in ProductIds \cup {MissingProductId} : CreateManualLink(a, b)
    \/ \E a, b \in ProductIds \cup {MissingProductId},
          ua, ub \in UnitIds \cup {MissingUnitId} : CreateUnitLink(a, b, ua, ub)
    \/ \E s \in SourceApps \cup {NoFilter} : AutoLinkByBarcode(s)
    \/ \E id \in 1..MaxLinks : DeleteLink(id)

SpecLink == Init(TRUE, FALSE) /\ [][LinkNext]_vars

RateNext ==
    \/ \E c \in Callers : Acquire(c)
    \/ \E c \in Callers : Enter(c)
    \/ \E c \in Callers : Wake(c)
    \/ Tick

SpecRate == Init(FALSE, TRUE) /\ [][RateNext]_vars

\* a few calls, with a clock that keeps running and an event loop that
\* resumes every task that is ready: the head of the lock's queue, and a
\* task whose sleep is due
RateLiveNext ==
    \/ \E c \in Callers :
          Acquire(c) /\ acquired + InFlight < MaxLiveAcquires
    \/ \E c \in Callers : Enter(c)
    \/ \E c \in Callers : Wake(c)
    \/ Tick

Fairness ==
    /\ WF_vars(Tick)
    /\ \A c \in Callers : WF_vars(Enter(c)) /\ WF_vars(Wake(c))

SpecRateLive == Init(FALSE, TRUE) /\ [][RateLiveNext]_vars /\ Fairness

\* two sessions, one create_manual_link request each, on any product pair
LinkRaceNext ==
    \/ \E s \in Sessions, a, b \in ProductIds \cup {MissingProductId} :
          CheckManualLink(s, a, b)
    \/ \E s \in Sessions : InsertManualLink(s)

SpecLinkRace == Init(TRUE, FALSE) /\ [][LinkRaceNext]_vars

HttpNext ==
    \/ SendRequest
    \/ \E answer \in Answers : AnswerRequest(answer)

SpecHttp == Init(FALSE, FALSE) /\ [][HttpNext]_vars

MatchNext ==
    \/ \E a \in ScoredA, b \in ScoredB : ScoreMultiStrategy(a, b)
    \/ \E a \in ScoredA, b \in ScoredB : ScoreSimilarity(a, b)
    \/ ReturnMatch

SpecMatch == Init(FALSE, FALSE) /\ [][MatchNext]_vars

\* min_similarity 0.7 (the default) and 1.0
SuggestNext ==
    \* the product_links rows of a call: none, or a link of products 1 and 3
    \/ \E table \in SuggestTables,
          L \in {{}, {LinkRow(1, 1, 3, NULL, NULL, "manual")}},
          order_a, order_b \in RowOrders,
          min_similarity \in {<<7, 10>>, One}, limit \in 1..MaxLimit,
          source_app \in {NoFilter, "ben_soliman"} :
          GetLinkSuggestions(table, L, order_a, order_b, min_similarity,
                             limit, source_app)
    \/ ReturnSuggestions

SpecSuggest == Init(FALSE, FALSE) /\ [][SuggestNext]_vars

UnitNext ==
    \/ \E unit_a \in SourceUnits, unit_b \in TargetUnits, linked \in BOOLEAN :
          GetUnitLinkSuggestions(unit_a, unit_b, linked)
    \/ ReturnUnitSuggestions

SpecUnit == Init(FALSE, FALSE) /\ [][UnitNext]_vars

TokenNext ==
    \* credentials rows as the table may hold them before the scraper runs
    \/ \E a \in BOOLEAN, t \in {NoText, Text(<<>>), Text(<<"t">>)},
          e \in {NULL, 4} :
           SeedCredential([found |-> TRUE, is_active |-> a, access_token |-> t,
                           token_expires_at |-> e])
    \/ \E t \in {Text(<<>>), Text(<<"t">>)}, e \in {3, 5, 10} :
           StoreTokens(t, e)
    \/ ClockTick
    \/ CallIsTokenValid
    \/ CallGetAccessToken

SpecToken == Init(FALSE, FALSE) /\ [][TokenNext]_vars


(***************************************************************************)
(* Claims about the job control surface and the orchestrator               *)
(***************************************************************************)
ActiveJobs(source) ==
    {id \in DOMAIN jobs : /\ jobs[id].source_app = source
                          /\ jobs[id].status \in {"pending", "running"}}

\* C1: a start request for a source that has a pending or running job
\* creates no job row, so every source has at most one pending-or-running job
C1_OneActiveJobPerSource ==
    \A s \in SourceApps : Cardinality(ActiveJobs(s)) <= 1

Rank(status) ==
    IF status = "pending" THEN 0 ELSE IF status = "running" THEN 1 ELSE 2

\* C2: the status of a job that is completed, failed or cancelled never
\* changes again, and no status moves backwards along pending -> running ->
\* terminal
C2_TerminalIsFinal ==
    [][\A id \in DOMAIN jobs :
          /\ jobs[id].status \in Terminal => jobs'[id].status = jobs[id].status
          /\ Rank(jobs'[id].status) >= Rank(jobs[id].status)]_vars

\* C3: when run_full_scrape aborted on a systemic failure, the job row is
\* stored as failed, with completed_at and an error payload, once the
\* scheduled job function has returned
C3_FailedRunIsStored ==
    [][\A r \in Runs :
          (pc[r] = "raised" /\ fed[r].systemic /\ pc'[r] = "idle") =>
              /\ sess[r].job.id \in DOMAIN jobs'
              /\ jobs'[sess[r].job.id].status = "failed"
              /\ jobs'[sess[r].job.id].completed_at
              /\ jobs'[sess[r].job.id].error_details.type # "none"
              /\ jobs'[sess[r].job.id].error_details.error # "none"]_vars

PriceCount(key) ==
    Cardinality({p \in prices :
        \E row \in products : KeyOf(row) = key /\ p.product_id = row.id})

\* C4: after consecutive scrape cycles that processed a product with one
\* price and availability throughout, the product has exactly one price
\* record; with exactly one change of price or availability, exactly two
C4_OneRecordPerChange ==
    (clean /\ \A r \in Runs : pc[r] = "idle") =>
        \A key \in ProductKeys :
            feed[key].n >= 1 =>
                /\ feed[key].changes = 0 => PriceCount(key) = 1
                /\ feed[key].changes = 1 => PriceCount(key) = 2

\* C5: at most one product row exists per (source_app, external_id), and an
\* upsert of a key whose row already exists returns is_new = false, also when
\* runs overlap
C5_UpsertCreatesOnce ==
    /\ \A p, q \in products : KeyOf(p) = KeyOf(q) => p = q
    /\ \A r \in Runs : lastUpsert[r].existed => lastUpsert[r].result = "updated"

\* C6: a run whose only failures are confined to single payloads finishes
\* completed, with errors_count the number of failed payloads and
\* products_scraped the number of payloads that succeeded
C6_ItemFailuresAreIsolated ==
    \A r \in Runs :
        (pc[r] \in {"finished", "raised"} /\ ~fed[r].systemic) =>
            /\ pc[r] = "finished"
            /\ sess[r].job.status = "completed"
            /\ sess[r].job.errors_count = fed[r].bad
            /\ sess[r].job.products_scraped = fed[r].ok

\* what a cancel of job_id has to do: end a pending or running job as
\* cancelled with its completion time, and leave every other job, and an
\* unknown id, alone
CancelEffect(job_id) ==
    IF job_id \in DOMAIN jobs /\ jobs[job_id].status \in {"pending", "running"}
    THEN jobs' = [jobs EXCEPT ![job_id].status = "cancelled",
                              ![job_id].completed_at = TRUE]
    ELSE jobs' = jobs

\* C11: at both cancel entry points (ScraperService.cancel_job and the
\* cancel route) a cancel succeeds exactly when the job is pending or
\* running, and then sets status cancelled and completed_at; for a job that
\* is completed, failed or cancelled, and for an unknown id, it is rejected
\* and leaves the row unchanged
C11_CancelExactlyWhenActive ==
    \A job_id \in 1..MaxJobs :
        /\ ENABLED (CancelJob(job_id) /\ CancelEffect(job_id))
        /\ ENABLED (CancelScrapeJobRoute(job_id) /\ CancelEffect(job_id))

\* C12: a run whose category or product fetch failed with an authentication
\* error, or with a transport error after the last retry, ends with its
\* job marked failed, not completed
C12_FetchFailureFailsJob ==
    \A r \in Runs :
        (pc[r] \in {"finished", "raised"} /\ fed[r].lost # "none") =>
            sess[r].job.status = "failed"

\* C13: no two orchestrator runs of one source are in progress at the same
\* time, whether the scheduler or run_single_scrape started them
C13_OneRunPerSource ==
    \A r, q \in Runs :
        (r # q /\ pc[r] # "idle" /\ pc[q] # "idle") =>
            sess[r].source_app # sess[q].source_app

(***************************************************************************)
(* Claims about the linking service                                        *)
(***************************************************************************)
SameKey(l, m) ==
    /\ l.product_a_id = m.product_a_id
    /\ l.product_b_id = m.product_b_id
    /\ l.unit_a_id = m.unit_a_id
    /\ l.unit_b_id = m.unit_b_id

CanonicalLinks ==
    /\ \A l \in links : l.product_a_id < l.product_b_id
    /\ \A l, m \in links : SameKey(l, m) => l = m
    /\ \A l \in links : l.unit_a_id # NULL \/ l.unit_b_id # NULL =>
          /\ l.unit_a_id \in DOMAIN ProductUnits
          /\ l.unit_b_id \in DOMAIN ProductUnits
          /\ ProductUnits[l.unit_a_id].product_id = l.product_a_id
          /\ ProductUnits[l.unit_b_id].product_id = l.product_b_id

\* C7: a manual link, or a unit link, asked for a pair (unit pair) that is
\* linked already is rejected whatever the order of the two products, so
\* the pair (unit pair) keeps one row; every row has product_a_id <
\* product_b_id and carries each unit id on the side of its own product
C7_OneRowPerPair ==
    /\ []CanonicalLinks
    /\ [][(linkRes'.op \in {"manual", "unit"} /\ linkRes'.repeat) =>
             /\ linkRes'.outcome = "exists"
             /\ links' = links]_vars

\* a unit link asked for in reverse order was rejected while the pair also
\* holds a manual link
C7_Witness ==
    /\ linkRes.op = "unit"
    /\ linkRes.swapped
    /\ linkRes.repeat
    /\ linkRes.outcome = "exists"
    /\ \E l, m \in links : /\ l.product_a_id = m.product_a_id
                           /\ l.product_b_id = m.product_b_id
                           /\ l.unit_a_id = NULL
                           /\ l.link_type = "manual"
                           /\ m.unit_a_id # NULL

CrossSource(a, b) == catalog[a].source_app # catalog[b].source_app

\* barcodes that are equal, character for character, and not empty
RawEqual(a, b) ==
    /\ ~catalog[a].barcode.isnull
    /\ ~catalog[b].barcode.isnull
    /\ catalog[a].barcode.text = catalog[b].barcode.text
    /\ catalog[a].barcode.text # <<>>

\* barcodes that are equal and not empty once surrounding blanks are removed
StrippedEqual(a, b) ==
    /\ ~catalog[a].barcode.isnull
    /\ ~catalog[b].barcode.isnull
    /\ Strip(catalog[a].barcode.text) = Strip(catalog[b].barcode.text)
    /\ Strip(catalog[a].barcode.text) # <<>>

\* exactly one row joins a and b, and it is a barcode link of confidence 1.0
BarcodeLinked(L, a, b) ==
    \E l \in L : /\ PairLinks(L, a, b) = {l}
                 /\ l.product_a_id < l.product_b_id
                 /\ l.link_type = "barcode"
                 /\ l.confidence_score = 10000

\* a second unfiltered pass right after this step would create nothing
RerunCreatesNone ==
    \A pr \in BarcodePairs(NoFilter) : PairLinks(links', pr[1], pr[2]) # {}

\* C8 as stated: after an unfiltered pass over a catalog without links,
\* exactly the pairs of different sources with equal non-empty barcodes are
\* linked, by one barcode link of confidence 1.0 each, and a second pass
\* creates nothing
C8_RawBarcodePairs ==
    [][linkRes'.op = "auto" /\ AutoLinkByBarcode(NoFilter) =>
          /\ links = {} =>
                \A a, b \in ProductIds : a < b =>
                    IF CrossSource(a, b) /\ RawEqual(a, b)
                    THEN BarcodeLinked(links', a, b)
                    ELSE PairLinks(links', a, b) = {}
          /\ RerunCreatesNone]_vars

\* C8: after an unfiltered pass over a catalog without links, exactly the
\* pairs of different sources whose barcodes are equal and non-empty once
\* surrounding whitespace is stripped are linked, by one barcode link of
\* confidence 1.0 each, and a second pass creates nothing
C8_StrippedBarcodePairs ==
    [][linkRes'.op = "auto" /\ AutoLinkByBarcode(NoFilter) =>
          /\ links = {} =>
                \A a, b \in ProductIds : a < b =>
                    IF CrossSource(a, b) /\ StrippedEqual(a, b)
                    THEN BarcodeLinked(links', a, b)
                    ELSE PairLinks(links', a, b) = {}
          /\ RerunCreatesNone]_vars

\* a pass linked two products whose stored barcodes differ by a blank
C8_Witness ==
    /\ linkRes.op = "auto"
    /\ linkRes.created > 0
    /\ \E l \in links :
          /\ l.link_type = "barcode"
          /\ catalog[l.product_a_id].barcode # catalog[l.product_b_id].barcode

ValueErrors == {"not_found", "same_app", "exists", "unit_mismatch"}

\* C9: a manual or unit link request that names a missing product, two
\* products of one source, a pair (unit pair) that is linked already or a
\* unit of another product ends in a ValueError and leaves the rows as
\* they were
C9_InvalidLinkRejected ==
    [][(linkRes'.op \in {"manual", "unit"} /\ linkRes'.invalid) =>
          /\ linkRes'.outcome \in ValueErrors
          /\ links' = links]_vars

\* a unit link naming a unit of another product was rejected while the
\* table holds a link
C9_Witness ==
    /\ links # {}
    /\ linkRes.invalid
    /\ linkRes.op = "unit"
    /\ linkRes.outcome = "unit_mismatch"

(***************************************************************************)
(* Claims about the rate limiter                                           *)
(***************************************************************************)
\* C10: the acquire(1) calls that have returned by time t are at most
\* burst + rate * t; at 1.5 requests per second and burst 3, ten calls
\* issued back to back have waited 7 ticks, that is (10 - 3) / 1.5 seconds,
\* or more
C10_RateBound ==
    /\ HalvesPerToken * acquired <= burst_size + requests_per_second * now
    /\ (/\ requests_per_second = 2
        /\ burst_size = 6
        /\ acquired >= 10
        /\ idled = 0) => now - idled >= 7

\* the tenth back-to-back call returned after exactly 7 ticks
C10_Witness ==
    /\ requests_per_second = 2
    /\ burst_size = 6
    /\ acquired = 10
    /\ idled = 0
    /\ now = 7

\* the balance stays within the bucket
TokensInRange == 0 <= tokens /\ tokens <= burst_size

\* a call that returns takes its token out of what the bucket, refilled up to
\* now, really holds
DebitIsCovered ==
    acquired' # acquired =>
        /\ acquired' = acquired + 1
        /\ tokens' >= 0
        /\ tokens' + HalvesPerToken
               <= Min(burst_size, tokens + NewTokens(now - last_update))

Blocked(c) == cpc[c] # "idle"

\* C15: with concurrent acquire(1) callers on one limiter the balance is
\* between 0 and burst_size after every step, every call that returns has
\* debited tokens that were in the bucket, and every blocked caller
\* eventually returns
C15_ConcurrentAcquire ==
    /\ []TokensInRange
    /\ [][DebitIsCovered]_vars
    /\ \A c \in Callers : Blocked(c) ~> ~Blocked(c)

\* one caller sleeps inside the lock while the other queues behind it, after
\* calls have returned and emptied the bucket
C15_Witness ==
    /\ acquired >= 2
    /\ tokens < HalvesPerToken
    /\ \E c, d \in Callers : cpc[c] = "sleeping" /\ cpc[d] = "locked"

(***************************************************************************)
(* Claims about concurrent link creation                                   *)
(***************************************************************************)
\* the sessions have both finished a request for one linkable product pair
SamePairDone(s, t) ==
    /\ s # t
    /\ linkTx[s].pc = "done"
    /\ linkTx[t].pc = "done"
    /\ {linkTx[s].outcome, linkTx[t].outcome} \subseteq {"ok", "exists",
                                                          "IntegrityError"}
    /\ linkTx[s].product_a_id = linkTx[t].product_a_id
    /\ linkTx[s].product_b_id = linkTx[t].product_b_id

\* C14: two concurrent create_manual_link requests for one product pair, in
\* the same or in opposite argument order, leave exactly one ProductLink row
\* of the pair and exactly one of them is rejected, whatever the interleaving
\* of their existence checks and inserts
C14_OneRowOneRejection ==
    \A s, t \in Sessions :
        SamePairDone(s, t) =>
            /\ Cardinality(PairLinks(links, linkTx[s].product_a_id,
                                     linkTx[s].product_b_id)) = 1
            /\ Cardinality({u \in {s, t} : linkTx[u].outcome # "ok"}) = 1


(***************************************************************************)
(* Claims about the HTTP client                                            *)
(***************************************************************************)
\* the attempt that got answer number i of the call was followed by another
RetriedAfter(i) == Len(http.log) > i \/ http.pc = "sent"

\* C20: a request answered with a 5xx status is retried under the bounded
\* backoff policy that applies to a NetworkError (as long as attempts are
\* left), and a 4xx response other than 429 is surfaced to the caller
\* without any retry
C20_ServerErrorsRetried ==
    \A i \in 1..Len(http.log) :
        LET answer == http.log[i]
        IN /\ (answer.fault # "none" /\ i < stop_after_attempt)
                  => RetriedAfter(i)
           /\ (answer.status_code >= 500 /\ i < stop_after_attempt)
                  => RetriedAfter(i)
           /\ (answer.status_code >= 400 /\ answer.status_code < 500
                      /\ answer.status_code # 429)
                  => (~RetriedAfter(i) /\ http.pc = "raised")

\* C29: a call of request makes at most 3 attempts; an attempt is followed
\* by another only if it ended in a transport error or timeout, and at most
\* twice; a 401, 403 or 429 ends the call with its attempt; and every
\* attempt, retries included, has acquired one rate limiter token
C29_BoundedRetries ==
    /\ http.attempt_number <= stop_after_attempt
    /\ Len(http.log) = stop_after_attempt => http.pc # "sent"
    /\ http.acquired = http.attempt_number
    /\ \A i \in 1..Len(http.log) :
          LET answer == http.log[i]
          IN /\ RetriedAfter(i) =>
                    answer.fault # "none" /\ i <= stop_after_attempt - 1
             /\ answer.status_code \in {401, 403, 429} =>
                    /\ ~RetriedAfter(i)
                    /\ http.pc = "raised"
                    /\ http.raised \in {"AuthenticationError",
                                        "RateLimitError"}

\* a call that was retried twice after transport errors and then got a 401:
\* three attempts, three tokens
C29_Witness ==
    /\ http.pc = "raised"
    /\ Len(http.log) = stop_after_attempt
    /\ http.log[1].fault # "none"
    /\ http.log[2].fault # "none"
    /\ http.log[3].status_code = 401
    /\ http.acquired = 3

(***************************************************************************)
(* Claims about the heuristic scores                                       *)
(***************************************************************************)
\* both products carry a barcode and the two are equal, as the code
\* compares them (surrounding blanks stripped)
EqualBarcodes(a, b) ==
    /\ Truthy(a.barcode)
    /\ Truthy(b.barcode)
    /\ Strip(a.barcode.text) = Strip(b.barcode.text)

\* both products carry a SKU and the two are equal, as the code compares
\* them (stripped, in lower case)
EqualSkus(a, b) ==
    /\ Truthy(a.sku)
    /\ Truthy(b.sku)
    /\ Lower(Strip(a.sku.text)) = Lower(Strip(b.sku.text))

\* C16: the score of a pair of products, from _multi_strategy_match and from
\* the similarity used by get_link_suggestions, lies in [0, 1] and is 1.0
\* only when the products have equal non-empty barcodes or equal SKUs
C16_ScoreOneOnlyIfExact ==
    match.op # "none" =>
        /\ ~FLess(match.score, Zero)
        /\ ~FLess(One, match.score)
        /\ match.score = One =>
              \/ EqualBarcodes(match.product_a, match.product_b)
              \/ EqualSkus(match.product_a, match.product_b)


(***************************************************************************)
(* Claims about link suggestions                                           *)
(***************************************************************************)
\* the product get_link_suggestions starts from: no barcode, of the source
\* asked for
IsCandidate(id) ==
    /\ suggest.table[id].barcode.isnull \/ suggest.table[id].barcode.text = <<>>
    /\ suggest.source_app = NoFilter
          \/ suggest.table[id].source_app = suggest.source_app

\* the cross-source, not yet linked candidate pairs that score at least
\* min_similarity
Qualifying ==
    {pair \in ProductIds \X ProductIds :
        /\ pair[1] < pair[2]
        /\ IsCandidate(pair[1]) \/ IsCandidate(pair[2])
        /\ suggest.table[pair[1]].source_app # suggest.table[pair[2]].source_app
        /\ GetExistingLink(suggest.links, pair[1], pair[2]) = {}
        /\ ~FLess(CalculateSimilarity(suggest.table[pair[1]],
                                      suggest.table[pair[2]]),
                  suggest.min_similarity)}

PairScore(pair) ==
    Round4(CalculateSimilarity(suggest.table[pair[1]], suggest.table[pair[2]]))

Returned ==
    {<<Min(suggest.result[i].product_a_id, suggest.result[i].product_b_id),
       Max(suggest.result[i].product_a_id, suggest.result[i].product_b_id)>> :
        i \in DOMAIN suggest.result}

\* C17: get_link_suggestions returns, in non-increasing score order, the
\* limit highest-scoring pairs among the cross-source, not yet linked
\* candidate pairs that score at least min_similarity (all of them when
\* fewer than limit qualify), and never a pair of one source
C17_TopSuggestions ==
    suggest.op # "none" =>
        /\ \A i, j \in DOMAIN suggest.result :
              i < j => suggest.result[i].similarity_score
                          >= suggest.result[j].similarity_score
        /\ \A i \in DOMAIN suggest.result :
              suggest.table[suggest.result[i].product_a_id].source_app
                  # suggest.table[suggest.result[i].product_b_id].source_app
        /\ Len(suggest.result) = Min(suggest.limit, Cardinality(Qualifying))
        /\ Cardinality(Returned) = Len(suggest.result)
        /\ Returned \subseteq Qualifying
        /\ \A kept \in Returned, left \in Qualifying \ Returned :
              PairScore(kept) >= PairScore(left)


(***************************************************************************)
(* Claims about unit link suggestions                                      *)
(***************************************************************************)
\* both factors are known and the smaller is under half the larger
FactorRatioUnderHalf(unit_a, unit_b) ==
    /\ unit_a.factor # NULL
    /\ unit_b.factor # NULL
    /\ 2 * Min(unit_a.factor, unit_b.factor) < Max(unit_a.factor, unit_b.factor)

\* C18: an active source unit and an active target unit that are not linked
\* yet, whose factors have a ratio below 0.5 and whose names are similar, are
\* suggested with factor_warning = true; a suggested pair with equal factors
\* carries factor_warning = false
C18_FactorWarning ==
    unitMatch.op # "none" =>
        /\ (/\ unitMatch.unit_a.is_active
            /\ unitMatch.unit_b.is_active
            /\ ~unitMatch.linked
            /\ FactorRatioUnderHalf(unitMatch.unit_a, unitMatch.unit_b)
            /\ FLess(<<7, 10>>, UnitNameSimilarity(unitMatch.unit_a,
                                                   unitMatch.unit_b)))
               => (unitMatch.suggested /\ unitMatch.factor_warning)
        /\ (unitMatch.suggested
                /\ unitMatch.unit_a.factor = unitMatch.unit_b.factor)
               => ~unitMatch.factor_warning


(***************************************************************************)
(* Claims about the token manager                                          *)
(***************************************************************************)
\* an active credential with an access token exists
HasToken(row) == row.found /\ row.is_active /\ Truthy(row.access_token)

C24_FilteredPassLinksSource ==
    [][\A s \in SourceApps :
          (linkRes'.op = "auto" /\ AutoLinkByBarcode(s)) =>
              \A a, b \in ProductIds :
                  /\ (/\ a < b
                      /\ s \in {catalog[a].source_app, catalog[b].source_app}
                      /\ CrossSource(a, b)
                      /\ StrippedEqual(a, b)
                      /\ PairLinks(links, a, b) = {})
                         => BarcodeLinked(links', a, b)
                  /\ s \notin {catalog[a].source_app, catalog[b].source_app}
                         => PairLinks(links', a, b) = PairLinks(links, a, b)]_vars


(***************************************************************************)
(* Specification of a run and its categories; claims about it              *)
(***************************************************************************)
CategoryNext ==
    \/ \E a \in Adapters, result \in FetchResults : UpsertCategories(a, result)
    \/ \E batch \in SUBSET RawProducts : FetchRunProducts(batch)
    \/ \E result \in FetchResults, batch \in SUBSET RawProducts :
          FetchAllProducts(result, batch)
    \/ \E p \in RawProducts : ProcessRawProduct(p)
    \/ FinishCategoryRun

SpecCategory == Init(FALSE, FALSE) /\ [][CategoryNext]_vars

\* C21: the category of a processed product has been upserted before the
\* product is processed, for every adapter, also when a category fetch
\* failed and returned the empty list
C21_CategoryBeforeProduct ==
    catRun.last # NoRawProduct => catRun.last.category_id \in catRun.upserted


(***************************************************************************)
(* Specification of the price records of one product; claims about it      *)
(***************************************************************************)
UnitPriceNext ==
    \/ \E p \in Prices, v \in BOOLEAN : RecordProductPrice(p, v)
    \/ \E u \in PriceUnits, p \in Prices, v \in BOOLEAN :
          SaveVariantPrice(u, p, v)

SpecUnitPrice == Init(FALSE, FALSE) /\ [][UnitPriceNext]_vars

\* the new price or availability differs from the most recent record of the
\* (product, unit) pair, or the pair has no record yet
DiffersFromLatestOfPair(rows, unit_id, price, is_available) ==
    LET ofPair == {p \in rows : p.unit_id = unit_id}
    IN \A p \in LatestSet(ofPair) :
           p.price # price \/ p.is_available # is_available

\* C22: an ingestion call appends a price record exactly when the new price
\* or availability differs from the most recent record of the same
\* (product, unit) pair; records of another unit of the product have no
\* influence and no path appends a record equal to the latest of its pair
C22_RecordIffPairChanged ==
    [][unitPrices' # unitPrices =>
          (unitPrices'.appended <=>
               DiffersFromLatestOfPair(unitPrices.rows, unitPrices'.unit_id,
                                       unitPrices'.price,
                                       unitPrices'.is_available))]_vars


(***************************************************************************)
(* Specification of the comparison matrix; claims about it                 *)
(***************************************************************************)
MatrixShelves ==
    {s \in [ProductIds -> Shelves] :
        /\ s[1] \in {Shelf({UnitRow(1, 3, TRUE)}, {PriceRow(1, 1000, TRUE, 1)}),
                     Shelf({}, {})}
        /\ s[3] \in {Shelf({UnitRow(1, 3, TRUE)},
                           {PriceRow(NULL, 900, TRUE, 1)}),
                     Shelf({UnitRow(1, 1, FALSE)},
                           {PriceRow(NULL, 300, TRUE, 1),
                            PriceRow(1, 333, TRUE, 2)})}}

MatrixNext ==
    \/ /\ matrix.op = "none"
       /\ \E table \in MatrixTables, shelves \in MatrixShelves,
             L \in MatrixLinks, primary \in {1, 2} :
             GetComparisonMatrix(table, shelves, L, primary)
    \/ ReturnMatrix

SpecMatrix == Init(FALSE, FALSE) /\ [][MatrixNext]_vars

\* the cell of an app is the primary for its own app, else one of same, else
\* one of joined, else empty
CellIsFirstOf(app, same, joined) ==
    LET cell == matrix.cells[app]
    IN IF app = matrix.table[matrix.primary].source_app
       THEN cell = matrix.primary
       ELSE IF same # {} THEN cell \in same
       ELSE IF joined # {} THEN cell \in joined
       ELSE cell = NULL

\* the products of an app joined to the primary by an active link
JoinedByActiveLink(app) ==
    {p \in ProductIds :
        /\ matrix.table[p].source_app = app
        /\ \E l \in matrix.links :
              /\ l.is_active
              /\ {l.product_a_id, l.product_b_id} = {matrix.primary, p}}

\* the active products of an app whose barcode is that of the primary
SameBarcode(app) ==
    {p \in ProductIds :
        /\ matrix.table[p].source_app = app
        /\ matrix.table[p].is_active
        /\ ~matrix.table[p].barcode.isnull
        /\ matrix.table[p].barcode = matrix.table[matrix.primary].barcode}

\* the available priced units of the non-empty cells, each with its app
PricedUnits ==
    UNION {{<<app, u>> :
               u \in {v \in GetUnitsWithPrices(
                                matrix.shelves[matrix.cells[app]]) :
                          v.is_available /\ v.price # 0}} :
              app \in {ALL_APPS[i] : i \in DOMAIN ALL_APPS} \cap
                      {x \in DOMAIN matrix.cells : matrix.cells[x] # NULL}}

\* the divisor of a unit's price: its factor, 1 for a unit without factor
Divisor(u) == IF u.factor = 0 THEN 1 ELSE u.factor

\* price / factor rounded to a whole number of piastres: of the two whole
\* numbers around the quotient, the one at most half a piastre away
Rounded(u) ==
    LET below == u.price \div Divisor(u)
    IN CHOOSE r \in {below, below + 1} :
           \/ 2 * (u.price - r * Divisor(u)) <= Divisor(u)
              /\ r * Divisor(u) <= u.price
           \/ 2 * (r * Divisor(u) - u.price) <= Divisor(u)
              /\ r * Divisor(u) >= u.price

\* C23 as stated: each cell is the primary, else an active product of the
\* app with the same barcode, else a product of the app joined by an active
\* link, else empty; best_deal_price is the lowest price/factor of the
\* available priced units of the non-empty cells and best_deal_app an app
\* that has a unit at that price
C23_MatrixRowExact ==
    matrix.op = "matrix" =>
        /\ \A i \in DOMAIN ALL_APPS :
              CellIsFirstOf(ALL_APPS[i], SameBarcode(ALL_APPS[i]),
                            JoinedByActiveLink(ALL_APPS[i]))
        /\ IF PricedUnits = {}
           THEN matrix.best_deal_app = "none"
           ELSE \E au \in PricedUnits :
                   /\ au[1] = matrix.best_deal_app
                   /\ matrix.best_deal_price * Divisor(au[2]) = au[2].price
                   /\ \A bv \in PricedUnits :
                         au[2].price * Divisor(bv[2])
                             <= bv[2].price * Divisor(au[2])

\* C23, amended: the barcode step applies when the primary's barcode is not
\* empty; the normalized price of a unit is price/factor rounded to two
\* decimals (the price for a unit without factor), a unit whose rounded
\* value is zero counts as unpriced, and best_deal_app is the first app of
\* the list whose cell attains the lowest rounded value
C23_MatrixRowRounded ==
    matrix.op = "matrix" =>
        LET Counted == {au \in PricedUnits : Rounded(au[2]) # 0}
            Position(app) == CHOOSE i \in DOMAIN ALL_APPS : ALL_APPS[i] = app
        IN /\ \A i \in DOMAIN ALL_APPS :
                 CellIsFirstOf(ALL_APPS[i],
                               IF Truthy(matrix.table[matrix.primary].barcode)
                               THEN SameBarcode(ALL_APPS[i]) ELSE {},
                               JoinedByActiveLink(ALL_APPS[i]))
           /\ IF Counted = {}
              THEN matrix.best_deal_app = "none"
              ELSE \E au \in Counted :
                      /\ au[1] = matrix.best_deal_app
                      /\ matrix.best_deal_price = Rounded(au[2])
                      /\ \A bv \in Counted :
                            \/ Rounded(au[2]) < Rounded(bv[2])
                            \/ /\ Rounded(au[2]) = Rounded(bv[2])
                               /\ Position(au[1]) <= Position(bv[1])

\* a row whose ben_soliman cell came from the barcode query and whose
\* el_rabie cell came from a link, with a best deal away from the primary at
\* a third of 10.00, which is no whole number of piastres
C23_Witness ==
    /\ matrix.op = "matrix"
    /\ matrix.primary = 1
    /\ matrix.cells["ben_soliman"] \in SameBarcode("ben_soliman")
    /\ matrix.cells["el_rabie"] \in JoinedByActiveLink("el_rabie")
    /\ matrix.cells["el_rabie"] \notin SameBarcode("el_rabie")
    /\ matrix.best_deal_app = "ben_soliman"
    /\ matrix.best_deal_price = 333


(***************************************************************************)
(* Specification of ensure_authenticated; claims about it                  *)
(***************************************************************************)
AuthNext ==
    \/ \E t \in {NoText, Text(<<"t">>)}, e \in {NULL, 4, 9}, a \in BOOLEAN :
           SeedCredential([found |-> TRUE, is_active |-> a, access_token |-> t,
                           token_expires_at |-> e])
    \/ ClockTick
    \/ \E c \in Callers, adapter \in AuthAdapters : CheckStoredToken(c, adapter)
    \/ \E c \in Callers, answer \in {"token", "refused"},
          registered \in BOOLEAN, expires_in \in {3, 10} :
           Authenticate(c, answer, registered, expires_in)

SpecAuth == Init(FALSE, FALSE) /\ [][AuthNext]_vars

C26_OneLoginPerRefresh ==
    \A c \in Callers : ~(auth.call[c].login /\ auth.call[c].raced)


(***************************************************************************)
(* Specification of linking over rows taken out of use; claims about it    *)
(***************************************************************************)
RelinkNext ==
    \/ \E a, b \in ProductIds : CreateManualLink(a, b)
    \/ AutoLinkByBarcode(NoFilter)
    \/ \E id \in 1..MaxLinks : DeleteLink(id)
    \/ \E id \in 1..MaxLinks : DeactivateLink(id)

SpecRelink == Init(TRUE, FALSE) /\ [][RelinkNext]_vars

\* the pairs of different sources with equal non-empty barcodes that have
\* an active link
ActivelyLinked ==
    {pr \in BarcodePairs(NoFilter) :
        \E l \in PairLinks(links, pr[1], pr[2]) : l.is_active}

SpecJobsLive ==
    /\ Init(FALSE, FALSE)
    /\ [][JobsNext]_vars
    /\ WF_vars(RunLifecycle({"scheduled"})
                  /\ UNCHANGED <<linkVars, rateVars, raceVars, auxVars>>)

\* C28: every job a trigger created as pending eventually becomes running,
\* without anyone cancelling it
C28_PendingJobStarts ==
    \A j \in 1..MaxJobs :
        (j \in DOMAIN jobs /\ jobs[j].status = "pending")
            ~> (j \in DOMAIN jobs /\ jobs[j].status \in {"running"} \cup Terminal
                                  /\ jobs[j].status # "cancelled")


(***************************************************************************)
(* Claims about the order of a manual link and a unit link                 *)
(***************************************************************************)
\* the pair has a product-level row and a row for the units, and no other
BothLinks(L, a, b, ua, ub) ==
    /\ \E l \in PairLinks(L, a, b) : l.unit_a_id = NULL /\ l.unit_b_id = NULL
    /\ UnitPairLinks(L, a, b, ua, ub) # {}
    /\ Cardinality(PairLinks(L, a, b)) = 2

\* C30: for products a and b of different sources with units ua of a and ub
\* of b, create_manual_link(a, b) and create_unit_link(a, b, ua, ub) give the
\* same result in either order: whichever call comes second succeeds as it
\* does when the manual link comes first, and leaves both rows
C30_LinkOrderIrrelevant ==
    [][\A a, b \in ProductIds, ua, ub \in UnitIds :
          (/\ CrossSource(a, b)
           /\ OwnedUnit(ua, a)
           /\ OwnedUnit(ub, b)
           /\ Cardinality(PairLinks(links, a, b)) = 1)
          =>
          /\ (/\ UnitPairLinks(links, a, b, ua, ub) # {}
              /\ linkRes'.op = "manual"
              /\ CreateManualLink(a, b))
                 => linkRes'.outcome = "ok" /\ BothLinks(links', a, b, ua, ub)
          /\ (/\ \E l \in PairLinks(links, a, b) : l.unit_a_id = NULL
              /\ linkRes'.op = "unit"
              /\ CreateUnitLink(a, b, ua, ub))
                 => linkRes'.outcome = "ok" /\ BothLinks(links', a, b, ua, ub)]_vars

====
